---------------------------- MODULE Spec2Model ----------------------------
(***************************************************************************)
(* The numeric engines of the quant-finance dashboard (src/api/*.py):      *)
(* Isolation Forest, Gaussian HMM (Baum-Welch + Viterbi), K-means and the  *)
(* global numpy generator they draw from.                                  *)
(*                                                                         *)
(* Floating point numbers are modelled in fixed point: a real r is the     *)
(* integer r * ONE.  log, exp and 2^x are computed by series on that grid. *)
(***************************************************************************)
EXTENDS Integers, Sequences, FiniteSets, TLC

VARIABLES
    rng,        \* state of numpy's global generator (np.random)
    forest,     \* the IsolationForest object: its fields
    fitX,       \* rows given to the last successful fit (history)
    fitCalls,   \* number of fit calls so far (history)
    fitDone,    \* number of fit calls that returned (history)
    out,        \* what the last call returned
    km,         \* the locals of one kmeans call
    kmTrace,    \* (labels, centroids, new_centroids) of each Lloyd iteration (history)
    hmm,        \* the locals of one fit_hmm call
    runs,       \* the handler runs served so far (history)
    conc,       \* two engine runs in progress at once: where each stands
    rl,         \* the locals of one train_q_learning / evaluate_strategies call
    fn          \* one call of a function without state: its input and result

forestVars == <<forest, fitX, fitCalls, fitDone, out>>
kmVars == <<km, kmTrace>>
hmmVars == <<hmm>>
handlerVars == <<runs>>
concVars == <<conc>>
rlVars == <<rl>>
fnVars == <<fn>>
vars == <<rng, forestVars, kmVars, hmmVars, handlerVars, concVars, rlVars, fnVars>>

(***************************************************************************)
(* Bounds of the model.                                                    *)
(***************************************************************************)
MaxRows == 3        \* rows of a feature matrix
MaxVal == 1         \* feature values are 0..MaxVal (times Step)
MaxTrees == 2       \* n_trees ranges over 0..MaxTrees
MaxSamples == 3     \* max_samples ranges over 0..MaxSamples
MaxFits == 2        \* fit calls on one forest
MaxSeed == 0        \* generator states the forest may start from
KMaxPoints == 5     \* rows given to kmeans
KMaxK == 3          \* k ranges over 1..KMaxK
KMaxIters == 3      \* max_iters ranges over 0..KMaxIters
HMaxT == 3          \* observations given to fit_hmm
HMaxStates == 4     \* n_states ranges over 2..HMaxStates
HMaxIters == 8      \* n_iterations ranges over 0..HMaxIters
RMaxEpisodes == 2   \* n_episodes ranges over 1..RMaxEpisodes
RMaxSteps == 3      \* hedging steps of a path
RMaxPaths == 2      \* test paths of an evaluation
MaxRuns == 3        \* handler runs in one process

(***************************************************************************)
(* Fixed point arithmetic.                                                 *)
(***************************************************************************)
ONE == 1000
LN2 == 693          \* ln 2
EULER == 577        \* 0.5772156649, anomaly-detection.py:154
NaN == 0 - 1        \* the result of 0/0; every comparison with it is false

Min2(a, b) == IF a <= b THEN a ELSE b
Max2(a, b) == IF a >= b THEN a ELSE b
Abs(a) == IF a < 0 THEN 0 - a ELSE a

RECURSIVE SumSeq(_)
SumSeq(s) == IF s = <<>> THEN 0 ELSE Head(s) + SumSeq(Tail(s))

\* ln of a mantissa m in [ONE, 2*ONE): 2 * atanh((m-1)/(m+1)), three terms
LnMant(m) ==
    LET w  == (ONE * (m - ONE)) \div (m + ONE)
        w2 == (w * w) \div ONE
        w3 == (w2 * w) \div ONE
        w5 == (w3 * w2) \div ONE
    IN  2 * (w + w3 \div 3 + w5 \div 5)

\* np.log on the grid, for y > 0
RECURSIVE LnFx(_)
LnFx(y) ==
    IF y >= 2 * ONE THEN LN2 + LnFx(y \div 2)
    ELSE IF y < ONE THEN LnFx(2 * y) - LN2
    ELSE LnMant(y)

\* np.exp(-d) on the grid, for d >= 0
ExpNegFx(d) ==
    LET k  == d \div LN2
        f  == d % LN2
        f2 == (f * f) \div ONE
        f3 == (f2 * f) \div ONE
        f4 == (f3 * f) \div ONE
        p  == ONE - f + f2 \div 2 - f3 \div 6 + f4 \div 24
    IN  IF k >= 20 THEN 0 ELSE p \div (2 ^ k)

\* 2 ** (-q) on the grid, for q >= 0
Pow2NegFx(q) == ExpNegFx((q * LN2) \div ONE)

\* int(np.ceil(np.log2(n))), for n >= 1
RECURSIVE CeilLog2(_)
CeilLog2(n) == IF n <= 1 THEN 0 ELSE 1 + CeilLog2((n + 1) \div 2)

(***************************************************************************)
(* numpy's global generator.  A draw advances the state; the value is      *)
(* taken from the high bits of the new state.                              *)
(***************************************************************************)
RngMod == 1024
RngMul == 165
RngInc == 371

Advance(s) == (s * RngMul + RngInc) % RngMod

\* np.random.seed(n)
Seed(n) == n % RngMod

\* np.random.randint(n): a value in 0..n-1
RandInt(s, n) == [val |-> (Advance(s) * n) \div RngMod, rng |-> Advance(s)]

\* np.random.uniform(lo, hi): a value in [lo, hi) on the feature grid
Uniform(s, lo, hi) ==
    [val |-> lo + RandInt(s, hi - lo).val, rng |-> Advance(s)]

\* np.random.permutation(n): Fisher-Yates, one draw per position
RECURSIVE Shuffle(_, _, _)
Shuffle(p, i, s) ==
    IF i < 2 THEN [val |-> p, rng |-> s]
    ELSE LET d == RandInt(s, i)
             j == d.val + 1
             q == [p EXCEPT ![i] = p[j], ![j] = p[i]]
         IN  Shuffle(q, i - 1, d.rng)

\* np.random.choice(n, size, replace=False)
ChoiceNoReplace(s, n, size) ==
    LET sh == Shuffle([i \in 1..n |-> i], n, s)
    IN  [val |-> SubSeq(sh.val, 1, size), rng |-> sh.rng]


(***************************************************************************)
(* Feature matrices.  A row is a sequence of NFeatures values; values lie  *)
(* on the even points of a grid so that a split value can fall strictly    *)
(* between two neighbouring feature values.                                *)
(***************************************************************************)
NFeatures == 1
Step == 2
Values == {Step * v : v \in 0..MaxVal}
Rows == [1..NFeatures -> Values]
Matrices == UNION {[1..n -> Rows] : n \in 0..MaxRows}

(***************************************************************************)
(* IsolationTree (anomaly-detection.py:96-154).  A node is a record; an    *)
(* absent child (None) is the empty sequence, a present one a one-element  *)
(* sequence; split_feature None is NoFeature, split_value None is NoValue. *)
(***************************************************************************)
NoFeature == 0
NoValue == 0 - 1

\* IsolationTree.__init__
NewNode(n, f, v, l, r) ==
    [size |-> n, split_feature |-> f, split_value |-> v, left |-> l, right |-> r]

\* np.min / np.max of column f
RECURSIVE ColMin(_, _)
ColMin(X, f) ==
    IF Len(X) = 1 THEN X[1][f] ELSE Min2(X[1][f], ColMin(Tail(X), f))
RECURSIVE ColMax(_, _)
ColMax(X, f) ==
    IF Len(X) = 1 THEN X[1][f] ELSE Max2(X[1][f], ColMax(Tail(X), f))

\* X[left_mask] with `<=` in place of `<`
RECURSIVE RowsAtMost(_, _, _)
RowsAtMost(X, f, v) ==
    IF X = <<>> THEN <<>>
    ELSE IF X[1][f] <= v THEN <<X[1]>> \o RowsAtMost(Tail(X), f, v)
    ELSE RowsAtMost(Tail(X), f, v)

\* X[left_mask]: the rows with feature f below v
RECURSIVE RowsBelow(_, _, _)
RowsBelow(X, f, v) ==
    IF X = <<>> THEN <<>>
    ELSE IF X[1][f] < v THEN <<X[1]>> \o RowsBelow(Tail(X), f, v)
    ELSE RowsBelow(Tail(X), f, v)

\* X[~left_mask]
RECURSIVE RowsNotBelow(_, _, _)
RowsNotBelow(X, f, v) ==
    IF X = <<>> THEN <<>>
    ELSE IF X[1][f] < v THEN RowsNotBelow(Tail(X), f, v)
    ELSE <<X[1]>> \o RowsNotBelow(Tail(X), f, v)

\* IsolationTree.fit without the `min_val == max_val` return
RECURSIVE TreeFitNoDegenerate(_, _, _, _)
TreeFitNoDegenerate(X, depth, maxDepth, s) ==
    IF Len(X) <= 1 \/ depth >= maxDepth
    THEN [tree |-> NewNode(Len(X), NoFeature, NoValue, <<>>, <<>>), rng |-> s]
    ELSE
      LET d1 == RandInt(s, NFeatures)
          f  == d1.val + 1
          d2 == Uniform(d1.rng, ColMin(X, f), ColMax(X, f))
          v  == d2.val
          XL == RowsBelow(X, f, v)
          XR == RowsNotBelow(X, f, v)
      IN  IF Len(XL) > 0 /\ Len(XR) > 0
          THEN LET l == TreeFitNoDegenerate(XL, depth + 1, maxDepth, d2.rng)
                   r == TreeFitNoDegenerate(XR, depth + 1, maxDepth, l.rng)
               IN  [tree |-> NewNode(Len(X), f, v, <<l.tree>>, <<r.tree>>),
                    rng |-> r.rng]
          ELSE [tree |-> NewNode(Len(X), f, v, <<>>, <<>>), rng |-> d2.rng]

\* IsolationTree.fit: the tree built on rows X, and the generator after it
RECURSIVE TreeFit(_, _, _, _)
TreeFit(X, depth, maxDepth, s) ==
    IF Len(X) <= 1 \/ depth >= maxDepth
    THEN [tree |-> NewNode(Len(X), NoFeature, NoValue, <<>>, <<>>), rng |-> s]
    ELSE
      LET d1 == RandInt(s, NFeatures)
          f  == d1.val + 1
          lo == ColMin(X, f)
          hi == ColMax(X, f)
      IN  IF lo = hi
          THEN [tree |-> NewNode(Len(X), f, NoValue, <<>>, <<>>), rng |-> d1.rng]
          ELSE
            LET d2 == Uniform(d1.rng, lo, hi)
                v  == d2.val
                XL == RowsBelow(X, f, v)
                XR == RowsNotBelow(X, f, v)
            IN  IF Len(XL) > 0 /\ Len(XR) > 0
                THEN LET l == TreeFit(XL, depth + 1, maxDepth, d2.rng)
                         r == TreeFit(XR, depth + 1, maxDepth, l.rng)
                     IN  [tree |-> NewNode(Len(X), f, v, <<l.tree>>, <<r.tree>>),
                          rng |-> r.rng]
                ELSE [tree |-> NewNode(Len(X), f, v, <<>>, <<>>), rng |-> d2.rng]

\* IsolationTree._c: average path length of an unsuccessful BST search
CFactor(n) ==
    IF n <= 1 THEN 0
    ELSE 2 * (LnFx((n - 1) * ONE) + EULER) - (2 * (n - 1) * ONE) \div n

\* IsolationTree.path_length
RECURSIVE PathLength(_, _, _)
PathLength(t, x, depth) ==
    IF t.left = <<>> \/ t.right = <<>>
    THEN depth * ONE + CFactor(t.size)
    ELSE IF x[t.split_feature] < t.split_value
         THEN PathLength(t.left[1], x, depth + 1)
         ELSE PathLength(t.right[1], x, depth + 1)

(***************************************************************************)
(* IsolationForest (anomaly-detection.py:157-212).  contamination is held  *)
(* in percent.                                                             *)
(***************************************************************************)
Contaminations == {5, 50}
NoThreshold == 0 - 2        \* self.threshold = None

\* IsolationForest.__init__
NewForest(nt, ms, cont) ==
    [n_trees |-> nt, max_samples |-> ms, contamination |-> cont,
     trees |-> <<>>, threshold |-> NoThreshold]

\* a > b on floats: false when either side is NaN
FloatGt(a, b) == a # NaN /\ b # NaN /\ a > b

\* the sum over the trees of tree.path_length(x)
RECURSIVE PathSum(_, _)
PathSum(trees, x) ==
    IF trees = <<>> THEN 0
    ELSE PathLength(Head(trees), x, 0) + PathSum(Tail(trees), x)

\* avg_path_lengths[i] after the division by n_trees (0/0 is NaN)
AvgPath(f, x) ==
    IF f.n_trees = 0 THEN NaN ELSE PathSum(f.trees, x) \div f.n_trees

\* one entry of 2 ** (-avg_path_lengths / c)
ScoreOf(avg, c) == IF avg = NaN THEN NaN ELSE Pow2NegFx((avg * ONE) \div c)

\* IsolationForest.score_samples
ScoreSamples(f, X) ==
    LET c == CFactor(f.max_samples)
    IN  [i \in 1..Len(X) |-> IF c # 0 THEN ScoreOf(AvgPath(f, X[i]), c) ELSE 0]

\* sorted(s)
RECURSIVE Insert(_, _)
Insert(s, a) ==
    IF s = <<>> THEN <<a>>
    ELSE IF a <= Head(s) THEN <<a>> \o s
    ELSE <<Head(s)>> \o Insert(Tail(s), a)
RECURSIVE Sorted(_)
Sorted(s) == IF s = <<>> THEN <<>> ELSE Insert(Sorted(Tail(s)), Head(s))

\* np.percentile(s, q), q in percent: linear interpolation between the
\* two order statistics around (n - 1) * q / 100; NaN if s holds a NaN
Percentile(s, q) ==
    LET srt  == Sorted(s)
        n    == Len(s)
        pos  == (n - 1) * q
        lo   == pos \div 100 + 1
        hi   == Min2(lo + 1, n)
        frac == pos % 100
    IN  IF \E i \in 1..n : s[i] = NaN THEN NaN
        ELSE srt[lo] + ((srt[hi] - srt[lo]) * frac) \div 100

\* the loop of IsolationForest.fit: nt trees, each on its own subsample
RECURSIVE BuildTrees(_, _, _, _, _)
BuildTrees(X, nt, size, maxDepth, s) ==
    IF nt = 0 THEN [trees |-> <<>>, rng |-> s]
    ELSE LET ch   == ChoiceNoReplace(s, Len(X), size)
             Xs   == [i \in 1..size |-> X[ch.val[i]]]
             t    == TreeFit(Xs, 0, maxDepth, ch.rng)
             rest == BuildTrees(X, nt - 1, size, maxDepth, t.rng)
         IN  [trees |-> <<t.tree>> \o rest.trees, rng |-> rest.rng]

\* sample_size of IsolationForest.fit
SampleSize(f, X) == Min2(f.max_samples, Len(X))

\* fit raises: int(np.ceil(np.log2(0))) is int(-inf), an OverflowError
FitRaises(f, X) == SampleSize(f, X) < 1

\* ForestFit without `self.trees = []`: a refit keeps the old trees
ForestFitKeepTrees(f, X, s) ==
    LET size  == Min2(f.max_samples, Len(X))
        built == BuildTrees(X, f.n_trees, size, CeilLog2(size), s)
        f1    == [f EXCEPT !.trees = f.trees \o built.trees]
        thr   == Percentile(ScoreSamples(f1, X), 100 - f.contamination)
    IN  [forest |-> [f1 EXCEPT !.threshold = thr], rng |-> built.rng]

\* IsolationForest.fit: the forest after it, and the generator after it
ForestFit(f, X, s) ==
    LET size  == SampleSize(f, X)
        built == BuildTrees(X, f.n_trees, size, CeilLog2(size), s)
        f1    == [f EXCEPT !.trees = built.trees]
        thr   == Percentile(ScoreSamples(f1, X), 100 - f.contamination)
    IN  [forest |-> [f1 EXCEPT !.threshold = thr], rng |-> built.rng]

\* Predict with `scores >= self.threshold`
PredictGe(f, X) ==
    LET scores == ScoreSamples(f, X)
    IN  [i \in 1..Len(X) |->
            IF scores[i] # NaN /\ f.threshold # NaN /\ scores[i] >= f.threshold
            THEN 1 ELSE 0]

\* IsolationForest.predict
Predict(f, X) ==
    LET scores == ScoreSamples(f, X)
    IN  [i \in 1..Len(X) |-> IF FloatGt(scores[i], f.threshold) THEN 1 ELSE 0]

(***************************************************************************)
(* K-means (stock-clustering.py:102-166).  A row of X is a point with      *)
(* integer coordinates.  A centroid is a mean of at most KMaxPoints rows,  *)
(* so it is held exactly as its coordinates times KScale, a common         *)
(* multiple of every possible cluster size; squared distances and inertia  *)
(* are then held times KScale^2.  Labels are 1..k (0..k-1 in the code).    *)
(***************************************************************************)
KDim == 2
KPoints == << <<1, 2>>, <<4, 1>>, <<4, 0>>, <<2, 4>>, <<3, 4>> >>

\* the datasets: up to KMaxPoints rows drawn from KPoints, repeats allowed
KDatasets ==
    LET np  == Len(KPoints)
        idx == UNION {[1..n -> 1..np] : n \in 0..KMaxPoints}
        inc == {f \in idx : \A i \in 1..(Len(f) - 1) : f[i] <= f[i + 1]}
    IN  {[i \in 1..Len(f) |-> KPoints[f[i]]] : f \in inc}

RECURSIVE Gcd(_, _)
Gcd(a, b) == IF b = 0 THEN a ELSE Gcd(b, a % b)
RECURSIVE LcmUpTo(_)
LcmUpTo(n) == IF n <= 1 THEN 1 ELSE (LcmUpTo(n - 1) * n) \div Gcd(LcmUpTo(n - 1), n)
KScale == LcmUpTo(KMaxPoints)

TolNum == 1         \* tol = 1e-4 = TolNum / TolDen
TolDen == 10000

\* np.sum((point - c) ** 2)
Dist2(x, c) == SumSeq([d \in 1..KDim |-> (x[d] - c[d]) * (x[d] - c[d])])

\* a row on the centroids' scale
Scaled(x) == [d \in 1..KDim |-> KScale * x[d]]

\* min(np.sum((point - c) ** 2) for c in centroids), centroids = X[chosen]
RECURSIVE MinDist(_, _, _)
MinDist(X, chosen, x) ==
    IF Len(chosen) = 1 THEN Dist2(x, X[chosen[1]])
    ELSE Min2(Dist2(x, X[chosen[1]]), MinDist(X, Tail(chosen), x))

\* the array `distances` of kmeans_plusplus_init
KppDistances(X, chosen) == [i \in 1..Len(X) |-> MinDist(X, chosen, X[i])]

\* np.random.choice(n, p = w / w.sum()): the first index whose cumulative
\* probability exceeds the uniform draw
RECURSIVE CdfSearch(_, _, _, _, _)
CdfSearch(w, j, cum, u, total) ==
    IF j >= Len(w) \/ (cum + w[j]) * RngMod > u * total THEN j
    ELSE CdfSearch(w, j + 1, cum + w[j], u, total)

\* np.random.choice(n) without p: every row alike
WeightedChoiceUniform(s, w) ==
    [val |-> RandInt(s, Len(w)).val + 1, rng |-> Advance(s)]
WeightedChoice(s, w) ==
    [val |-> CdfSearch(w, 1, 0, Advance(s), SumSeq(w)), rng |-> Advance(s)]

\* one draw of kmeans_plusplus_init: np.random.randint for the first
\* centroid, np.random.choice for each later one; np.random.randint(0)
\* raises ValueError, and distances.sum() = 0 makes every probability NaN
\* so that np.random.choice raises ValueError
KppStep(X, chosen, s) ==
    IF chosen = <<>>
    THEN IF Len(X) = 0 THEN [raised |-> TRUE, chosen |-> chosen, rng |-> s]
         ELSE LET d == RandInt(s, Len(X))
              IN  [raised |-> FALSE, chosen |-> <<d.val + 1>>, rng |-> d.rng]
    ELSE LET w == KppDistances(X, chosen)
         IN  IF SumSeq(w) = 0
             THEN [raised |-> TRUE, chosen |-> chosen, rng |-> s]
             ELSE LET d == WeightedChoice(s, w)
                  IN  [raised |-> FALSE, chosen |-> Append(chosen, d.val),
                       rng |-> d.rng]

\* the loop of kmeans_plusplus_init
RECURSIVE KppLoop(_, _, _, _)
KppLoop(X, k, chosen, s) ==
    IF Len(chosen) >= k THEN [raised |-> FALSE, chosen |-> chosen, rng |-> s]
    ELSE LET d == KppStep(X, chosen, s)
         IN  IF d.raised THEN d ELSE KppLoop(X, k, d.chosen, d.rng)

\* kmeans_plusplus_init: the indices of the rows chosen as centroids and
\* the generator after it
KppInit(X, k, s) ==
    LET d == KppStep(X, <<>>, s)
    IN  IF d.raised THEN d ELSE KppLoop(X, k, d.chosen, d.rng)

\* every outcome kmeans_plusplus_init has with positive probability
RECURSIVE KppOutcomesFrom(_, _, _)
KppOutcomesFrom(X, k, chosen) ==
    IF Len(chosen) >= k THEN {[raised |-> FALSE, chosen |-> chosen]}
    ELSE LET w == KppDistances(X, chosen)
         IN  IF SumSeq(w) = 0 THEN {[raised |-> TRUE, chosen |-> chosen]}
             ELSE UNION {KppOutcomesFrom(X, k, Append(chosen, j)) :
                            j \in {i \in 1..Len(X) : w[i] > 0}}
KppOutcomes(X, k) ==
    IF Len(X) = 0 THEN {[raised |-> TRUE, chosen |-> <<>>]}
    ELSE UNION {KppOutcomesFrom(X, k, <<j>>) : j \in 1..Len(X)}

\* np.array(centroids)
CentroidsOf(X, chosen) == [i \in 1..Len(chosen) |-> Scaled(X[chosen[i]])]

\* squared distance of row x to centroid c, times KScale^2
Dist2C(x, c) == Dist2(Scaled(x), c)

\* Nearest with np.argmax in place of np.argmin
RECURSIVE Farthest(_, _, _, _)
Farthest(x, cents, j, best) ==
    IF j > Len(cents) THEN best
    ELSE Farthest(x, cents, j + 1,
                  IF Dist2C(x, cents[j]) > Dist2C(x, cents[best]) THEN j ELSE best)

\* np.argmin over row x's distances to the centroids: the lowest index
\* among the nearest
RECURSIVE Nearest(_, _, _, _)
Nearest(x, cents, j, best) ==
    IF j > Len(cents) THEN best
    ELSE Nearest(x, cents, j + 1,
                 IF Dist2C(x, cents[j]) < Dist2C(x, cents[best]) THEN j ELSE best)

\* labels = np.argmin(distances, axis=1)
Assign(X, cents) == [i \in 1..Len(X) |-> Nearest(X[i], cents, 2, 1)]

\* the rows with label j (X[mask])
Members(X, labels, j) == {i \in 1..Len(X) : labels[i] = j}

\* the sum of coordinate d over the rows in S
RECURSIVE CoordSum(_, _, _)
CoordSum(X, S, d) ==
    IF S = {} THEN 0
    ELSE LET i == CHOOSE m \in S : TRUE
         IN  X[i][d] + CoordSum(X, S \ {i}, d)

\* X[mask].mean(axis=0), on the centroids' scale
MeanOf(X, S) == [d \in 1..KDim |-> CoordSum(X, S, d) * (KScale \div Cardinality(S))]

\* new_centroids: the mean of the assigned rows, or the old centroid when
\* no row is assigned
Update(X, labels, cents) ==
    [j \in 1..Len(cents) |->
        IF Members(X, labels, j) # {} THEN MeanOf(X, Members(X, labels, j))
        ELSE cents[j]]

\* np.sum((new_centroids - centroids) ** 2), times KScale^2
Movement(new, old) == SumSeq([j \in 1..Len(old) |-> Dist2(new[j], old[j])])

\* movement < tol
Converged(new, old) ==
    Movement(new, old) < (TolNum * KScale * KScale + TolDen - 1) \div TolDen

\* the values of the parameter tol: the default 1e-4, and 1/2
KTols == {[num |-> TolNum, den |-> TolDen], [num |-> 1, den |-> 2]}

\* movement < tol, for a tol given as a fraction
ConvergedTol(new, old, tol) ==
    Movement(new, old) * tol.den < tol.num * KScale * KScale

\* the inertia of (labels, centroids), times KScale^2
Inertia(X, labels, cents) ==
    SumSeq([i \in 1..Len(X) |-> Dist2C(X[i], cents[labels[i]])])

(***************************************************************************)
(* Gaussian HMM (regime-detection.py:44-258).  Probabilities, means,       *)
(* variances and log values are fixed point numbers.  The constant 1e-10   *)
(* of the code is below the grid and is held as Eps, the smallest positive *)
(* number of the grid.  States are 1..n_states (0..n_states-1 in the code).*)
(***************************************************************************)
Eps == 1
LN_2PI == 1838      \* ln(2 * pi)

\* the observation sequences: returns on a coarse grid
HObs == {0, ONE, 10 * ONE}
HObservations == UNION {[1..T -> HObs] : T \in 1..HMaxT}

\* a vector or matrix built entry by entry, as the array it denotes
Vec(f) == f \o <<>>

RECURSIVE SeqMax(_)
SeqMax(v) == IF Len(v) = 1 THEN v[1] ELSE Max2(v[1], SeqMax(Tail(v)))

\* np.argmax: the lowest index among the largest entries
ArgMax(v) == CHOOSE i \in 1..Len(v) :
                /\ v[i] = SeqMax(v)
                /\ \A j \in 1..(i - 1) : v[j] < v[i]

\* scipy.special.logsumexp
LogSumExp(v) ==
    LET m == SeqMax(v)
    IN  m + LnFx(SumSeq(Vec([i \in 1..Len(v) |-> ExpNegFx(m - v[i])])))

\* np.log(p + 1e-10)
LogEps(p) == LnFx(p + Eps)

\* v / v.sum()
Normalize(v) ==
    LET total == SumSeq(v)
    IN  Vec([i \in 1..Len(v) |-> (v[i] * ONE) \div total])

\* initialize_hmm
InitializeHmm(n, returns) ==
    LET srt  == Sorted(returns)
        T    == Len(returns)
        mu   == SumSeq(returns) \div T
        var  == SumSeq(Vec([t \in 1..T |->
                    ((returns[t] - mu) * (returns[t] - mu)) \div ONE])) \div T
        row(i) == Vec([j \in 1..n |-> IF i = j THEN (9 * ONE) \div 10
                                      ELSE (ONE \div 10) \div (n - 1)])
    IN  [means      |-> Sorted(Vec([i \in 1..n |-> srt[((i - 1) * T) \div n + 1]])),
         variances  |-> Vec([i \in 1..n |-> var]),
         transition |-> Vec([i \in 1..n |-> Normalize(row(i))]),
         start_prob |-> Vec([i \in 1..n |-> ONE \div n])]

\* gaussian_log_likelihood, for one observation x
GaussianLogLikelihood(x, mean, var) ==
    LET v == IF var <= 0 THEN Eps ELSE var
    IN  0 - (LN_2PI + LnFx(v)) \div 2 - (((x - mean) * (x - mean)) \div v) \div 2

\* log_emission[t, s]
LogEmission(obs, params) ==
    Vec([t \in 1..Len(obs) |-> Vec([s \in 1..Len(params.means) |->
        GaussianLogLikelihood(obs[t], params.means[s], params.variances[s])])])

\* log_trans and log_start
LogTrans(params) ==
    Vec([i \in 1..Len(params.means) |-> Vec([j \in 1..Len(params.means) |->
        LogEps(params.transition[i][j])])])
LogStart(params) ==
    Vec([i \in 1..Len(params.means) |-> LogEps(params.start_prob[i])])

\* elementwise sum of two vectors; column j of a matrix
VecAdd(a, b) == Vec([i \in 1..Len(a) |-> a[i] + b[i]])
Column(m, j) == Vec([i \in 1..Len(m) |-> m[i][j]])

\* the forward pass: rows 1..Len(em) of log_alpha, given the rows so far
RECURSIVE ForwardRows(_, _, _)
ForwardRows(em, lt, rows) ==
    IF Len(rows) = Len(em) THEN rows
    ELSE LET t    == Len(rows) + 1
             prev == rows[t - 1]
             row  == Vec([s \in 1..Len(lt) |->
                         LogSumExp(VecAdd(prev, Column(lt, s))) + em[t][s]])
         IN  ForwardRows(em, lt, Append(rows, row))

\* forward_algorithm
ForwardAlgorithm(obs, params) ==
    LET em == LogEmission(obs, params)
        la == ForwardRows(em, LogTrans(params), <<VecAdd(LogStart(params), em[1])>>)
    IN  [log_likelihood |-> LogSumExp(la[Len(obs)]), log_alpha |-> la]

\* the backward pass: rows t..T of log_beta, given rows t+1..T
RECURSIVE BackwardRows(_, _, _)
BackwardRows(em, lt, rows) ==
    IF Len(rows) = Len(em) THEN rows
    ELSE LET t   == Len(em) - Len(rows)
             nxt == VecAdd(em[t + 1], rows[1])
             row == Vec([s \in 1..Len(lt) |-> LogSumExp(VecAdd(lt[s], nxt))])
         IN  BackwardRows(em, lt, <<row>> \o rows)

\* backward_algorithm
BackwardAlgorithm(obs, params) ==
    BackwardRows(LogEmission(obs, params), LogTrans(params),
                 <<Vec([s \in 1..Len(params.means) |-> 0])>>)

\* the rows of a matrix laid end to end
RECURSIVE Flatten(_)
Flatten(m) == IF m = <<>> THEN <<>> ELSE Head(m) \o Flatten(Tail(m))

\* np.exp(v - logsumexp(v)), entry by entry
ExpNormalized(v) ==
    LET lse == LogSumExp(v)
    IN  Vec([i \in 1..Len(v) |-> ExpNegFx(lse - v[i])])

\* gamma: the state occupation probabilities
Gamma(log_alpha, log_beta) ==
    Vec([t \in 1..Len(log_alpha) |->
            ExpNormalized(VecAdd(log_alpha[t], log_beta[t]))])

\* xi[t]: the transition probabilities between observations t and t + 1
Xi(log_alpha, log_beta, em, lt, t) ==
    LET n   == Len(lt)
        lx  == Vec([i \in 1..n |-> Vec([j \in 1..n |->
                   log_alpha[t][i] + lt[i][j] + em[t + 1][j] + log_beta[t + 1][j]])])
        lse == LogSumExp(Flatten(lx))
    IN  Vec([i \in 1..n |-> Vec([j \in 1..n |-> ExpNegFx(lse - lx[i][j])])])

\* the M-step for the emission of state s: gamma-weighted mean and variance
NewMean(obs, gamma, s) ==
    LET gamma_sum == SumSeq(Vec([t \in 1..Len(obs) |-> gamma[t][s]])) + Eps
    IN  SumSeq(Vec([t \in 1..Len(obs) |-> gamma[t][s] * obs[t]])) \div gamma_sum

NewVariance(obs, gamma, s) ==
    LET gamma_sum == SumSeq(Vec([t \in 1..Len(obs) |-> gamma[t][s]])) + Eps
        m         == NewMean(obs, gamma, s)
        v         == SumSeq(Vec([t \in 1..Len(obs) |->
                        gamma[t][s] * (((obs[t] - m) * (obs[t] - m)) \div ONE)]))
                     \div gamma_sum
    IN  Max2(v, Eps)

\* the new transition matrix without the division by the row sums
NewTransitionRaw(xi, n) ==
    Vec([i \in 1..n |-> Vec([j \in 1..n |->
        SumSeq(Vec([t \in 1..Len(xi) |-> xi[t][i][j]])) + Eps])])

\* the new transition matrix: np.sum(xi, axis=0) + 1e-10, rows normalised
NewTransition(xi, n) ==
    Vec([i \in 1..n |-> Normalize(Vec([j \in 1..n |->
        SumSeq(Vec([t \in 1..Len(xi) |-> xi[t][i][j]])) + Eps]))])

\* baum_welch_iteration
BaumWelchIteration(obs, params) ==
    LET n     == Len(params.means)
        T     == Len(obs)
        fwd   == ForwardAlgorithm(obs, params)
        lb    == BackwardAlgorithm(obs, params)
        gamma == Gamma(fwd.log_alpha, lb)
        em    == LogEmission(obs, params)
        lt    == LogTrans(params)
        xi    == Vec([t \in 1..(T - 1) |-> Xi(fwd.log_alpha, lb, em, lt, t)])
    IN  [params |->
            [means      |-> Vec([s \in 1..n |-> NewMean(obs, gamma, s)]),
             variances  |-> Vec([s \in 1..n |-> NewVariance(obs, gamma, s)]),
             transition |-> NewTransition(xi, n),
             start_prob |-> Normalize(Vec([s \in 1..n |-> gamma[1][s] + Eps]))],
         log_likelihood |-> fwd.log_likelihood,
         gamma |-> gamma]

\* the Viterbi pass: rows 1..T of log_delta and psi (psi[1] is unused)
RECURSIVE ViterbiRows(_, _, _, _)
ViterbiRows(em, lt, delta, psi) ==
    IF Len(delta) = Len(em) THEN [log_delta |-> delta, psi |-> psi]
    ELSE LET t    == Len(delta) + 1
             cand(s) == VecAdd(delta[t - 1], Column(lt, s))
             prow == Vec([s \in 1..Len(lt) |-> ArgMax(cand(s))])
             drow == Vec([s \in 1..Len(lt) |-> cand(s)[prow[s]] + em[t][s]])
         IN  ViterbiRows(em, lt, Append(delta, drow), Append(psi, prow))

\* Backtrack reading the back-pointer row of t in place of t + 1
RECURSIVE BacktrackSameRow(_, _)
BacktrackSameRow(psi, states) ==
    IF Len(states) = Len(psi) THEN states
    ELSE LET t == Len(psi) - Len(states)
         IN  BacktrackSameRow(psi, <<psi[t][states[1]]>> \o states)

\* the backtrack: states t..T, given states t+1..T
RECURSIVE Backtrack(_, _)
Backtrack(psi, states) ==
    IF Len(states) = Len(psi) THEN states
    ELSE LET t == Len(psi) - Len(states)
         IN  Backtrack(psi, <<psi[t + 1][states[1]]>> \o states)

\* the tables of viterbi_decode
ViterbiTables(obs, params) ==
    LET em == LogEmission(obs, params)
    IN  ViterbiRows(em, LogTrans(params),
                    <<VecAdd(LogStart(params), em[1])>>,
                    <<Vec([s \in 1..Len(params.means) |-> 1])>>)

\* viterbi_decode
ViterbiDecode(obs, params) ==
    LET v == ViterbiTables(obs, params)
    IN  Backtrack(v.psi, <<ArgMax(v.log_delta[Len(obs)])>>)

(***************************************************************************)
(* Q-learning delta hedging (rl-hedging.py:19-310).  Prices, rates, times, *)
(* deltas, rewards and action values are fixed point numbers.  Actions are *)
(* 0, 1, 2 as in the code; the action values of a state are a sequence of  *)
(* three, action a at position a + 1.  The Q-table is a function whose     *)
(* domain is the set of keys inserted so far.                              *)
(***************************************************************************)

\* np.sqrt on the grid: Newton's iteration on integers
RECURSIVE SqrtStep(_, _)
SqrtStep(n, x) ==
    LET y == (x + n \div x) \div 2
    IN  IF y >= x THEN x ELSE SqrtStep(n, y)
SqrtFx(x) == IF x <= 0 THEN 0 ELSE SqrtStep(x * ONE, x * ONE)

\* np.exp on the grid
ExpFx(x) == IF x >= 0 THEN (ONE * ONE) \div ExpNegFx(x) ELSE ExpNegFx(0 - x)

\* norm.cdf: 1 - pdf(x) * (b1 t + b2 t^2 + b3 t^3), t = 1 / (1 + 0.33267 x)
NormCdfFx(x) ==
    LET a    == Abs(x)
        tt   == (ONE * ONE) \div (ONE + (333 * a) \div ONE)
        t2   == (tt * tt) \div ONE
        t3   == (t2 * tt) \div ONE
        pdf  == (399 * ExpNegFx((a * a) \div (2 * ONE))) \div ONE
        poly == (436 * tt - 120 * t2 + 937 * t3) \div ONE
        up   == ONE - (pdf * poly) \div ONE
    IN  IF a > 8 * ONE THEN (IF x > 0 THEN ONE ELSE 0)
        ELSE IF x >= 0 THEN up ELSE ONE - up

\* np.random.normal(0, 1): the inverse normal cdf of a uniform draw, on
\* eight equally likely values
NormalTable == <<0 - 1534, 0 - 887, 0 - 489, 0 - 157, 157, 489, 887, 1534>>
StdNormal(s) ==
    [val |-> NormalTable[RandInt(s, Len(NormalTable)).val + 1], rng |-> Advance(s)]

\* np.random.random(): a value in [0, 1)
RandomFx(s) == [val |-> (Advance(s) * ONE) \div RngMod, rng |-> Advance(s)]

\* black_scholes_delta of a call
BlackScholesDelta(S, K, T, r, sigma) ==
    IF T <= 0 THEN (IF S > K THEN ONE ELSE 0)
    ELSE LET num == LnFx((S * ONE) \div K)
                    + ((r + ((sigma * sigma) \div ONE) \div 2) * T) \div ONE
             den == (sigma * SqrtFx(T)) \div ONE
         IN  NormCdfFx((num * ONE) \div den)

\* one turn of the loop of simulate_gbm_path
GbmStep(prices, r, sigma, dt, s) ==
    LET z     == StdNormal(s)
        dW    == (z.val * SqrtFx(dt)) \div ONE
        drift == ((r - ((sigma * sigma) \div ONE) \div 2) * dt) \div ONE
        S_new == (prices[Len(prices)] * ExpFx(drift + (sigma * dW) \div ONE))
                 \div ONE
    IN  [val |-> Append(prices, S_new), rng |-> z.rng]

\* simulate_gbm_path: the prices so far extended to n_steps + 1 prices
RECURSIVE GbmPath(_, _, _, _, _, _)
GbmPath(prices, r, sigma, dt, n_steps, s) ==
    IF Len(prices) > n_steps THEN [val |-> prices, rng |-> s]
    ELSE LET d == GbmStep(prices, r, sigma, dt, s)
         IN  GbmPath(d.val, r, sigma, dt, n_steps, d.rng)

SimulateGbmPath(S0, r, sigma, T, n_steps, s) ==
    GbmPath(<<S0>>, r, sigma, T \div n_steps, n_steps, s)

\* discretize_state with the time bucket left as int(time_frac * 5)
DiscretizeStateNoClamp(S, K, T, T_total, delta) ==
    LET moneyness == (S * ONE) \div K
        time_frac == IF T_total > 0 THEN (T * ONE) \div T_total ELSE 0
    IN  <<IF moneyness < 900 THEN 0
          ELSE IF moneyness < 970 THEN 1
          ELSE IF moneyness < 1030 THEN 2
          ELSE IF moneyness < 1100 THEN 3
          ELSE 4,
          (time_frac * 5) \div ONE,
          Min2(4, Max2(0, (delta * 5) \div ONE))>>

\* discretize_state
DiscretizeState(S, K, T, T_total, delta) ==
    LET moneyness == (S * ONE) \div K
        time_frac == IF T_total > 0 THEN (T * ONE) \div T_total ELSE 0
    IN  <<IF moneyness < 900 THEN 0
          ELSE IF moneyness < 970 THEN 1
          ELSE IF moneyness < 1030 THEN 2
          ELSE IF moneyness < 1100 THEN 3
          ELSE 4,
          Min2(4, (time_frac * 5) \div ONE),
          Min2(4, Max2(0, (delta * 5) \div ONE))>>

\* np.argmax over the three action values, as an action
GreedyAction(q) == ArgMax(q) - 1

\* get_action_from_q: the action and the generator after it
GetActionFromQ(q_table, state, epsilon, s) ==
    LET u == RandomFx(s)
    IN  IF u.val < epsilon
        THEN RandInt(u.rng, 3)
        ELSE [val |-> IF state \notin DOMAIN q_table THEN 1
                      ELSE GreedyAction(q_table[state]),
              rng |-> u.rng]

\* apply_action
Multipliers == <<800, 1000, 1200>>
ApplyAction(bs_delta, action) == (bs_delta * Multipliers[action + 1]) \div ONE

\* calculate_hedge_pnl, for a call: the hedging error
HedgingError(prices, hedges, K, transaction_cost) ==
    LET n        == Len(prices) - 1
        payoff   == Max2(prices[n + 1] - K, 0)
        pnl      == SumSeq(Vec([t \in 1..n |->
                        (hedges[t] * (prices[t + 1] - prices[t])) \div ONE]))
        costs    == SumSeq(Vec([t \in 1..n |->
                        IF t = 1 THEN 0
                        ELSE (((Abs(hedges[t] - hedges[t - 1]) * prices[t]) \div ONE)
                              * transaction_cost) \div ONE]))
    IN  payoff - pnl - costs

\* the defaults of train_q_learning
LearningRate == 100
QGamma == 950
EpsilonStart == 1000
EpsilonEnd == 100

\* the Q-table with key k present: a new key gets [0.0, 0.0, 0.0]
WithKey(q_table, k) ==
    IF k \in DOMAIN q_table THEN q_table ELSE (k :> <<0, 0, 0>>) @@ q_table

\* the state met at step t (0-based) of a path, and the BS delta there
StateAt(cfg, prices, t) ==
    LET dt    == cfg.T \div cfg.n_steps
        T_rem == cfg.T - t * dt
        delta == BlackScholesDelta(prices[t + 1], cfg.K, T_rem, cfg.r, cfg.sigma)
    IN  [bs_delta |-> delta,
         state |-> DiscretizeState(prices[t + 1], cfg.K, T_rem, cfg.T, delta)]

\* an update that replaces the action value by the scaled target
QUpdateReplace(old, reward, max_next_q) ==
    (LearningRate * (reward + (QGamma * max_next_q) \div ONE)) \div ONE

\* q += learning_rate * (reward + gamma * max_next_q - q)
QUpdate(old, reward, max_next_q) ==
    old + (LearningRate * (reward + (QGamma * max_next_q) \div ONE - old)) \div ONE

\* one pass of the inner loop of train_q_learning, at step t
TrainStep(cfg, prices, epsilon, t, q_table, hedges, total, s) ==
    LET at     == StateAt(cfg, prices, t)
        act    == GetActionFromQ(q_table, at.state, epsilon, s)
        hedge  == ApplyAction(at.bs_delta, act.val)
        S      == prices[t + 1]
        reward ==
            IF t > 0
            THEN (hedges[t] * (S - prices[t])) \div ONE
                 - (((Abs(hedge - hedges[t]) * S) \div ONE)
                    * cfg.transaction_cost) \div ONE
                 - (10 * Abs(at.bs_delta - hedge)) \div ONE
            ELSE 0
        q1     == WithKey(q_table, at.state)
        nxt    == StateAt(cfg, prices, t + 1).state
        q2     == IF t < cfg.n_steps - 1 THEN WithKey(q1, nxt) ELSE q1
        max_next_q == IF t < cfg.n_steps - 1 THEN SeqMax(q2[nxt]) ELSE 0
        old    == q2[at.state][act.val + 1]
        q3     == [q2 EXCEPT ![at.state][act.val + 1] =
                      QUpdate(old, reward, max_next_q)]
    IN  [q_table |-> q3, hedges |-> Append(hedges, hedge),
         total |-> total + reward, rng |-> act.rng,
         state |-> at.state, action |-> act.val, reward |-> reward,
         max_next_q |-> max_next_q]

\* the inner loop of train_q_learning, from step t on
RECURSIVE TrainSteps(_, _, _, _, _, _, _, _)
TrainSteps(cfg, prices, epsilon, t, q_table, hedges, total, s) ==
    IF t >= cfg.n_steps
    THEN [q_table |-> q_table, hedges |-> hedges, total |-> total, rng |-> s]
    ELSE LET d == TrainStep(cfg, prices, epsilon, t, q_table, hedges, total, s)
         IN  TrainSteps(cfg, prices, epsilon, t + 1, d.q_table, d.hedges,
                        d.total, d.rng)

\* a decay by a constant factor
DecayEpsilonGeometric(cfg, epsilon) == Max2(EpsilonEnd, (epsilon * 995) \div ONE)

\* epsilon = max(epsilon_end, epsilon - epsilon_decay)
DecayEpsilon(cfg, epsilon) ==
    Max2(EpsilonEnd, epsilon - (EpsilonStart - EpsilonEnd) \div cfg.n_episodes)

\* the outer loop of train_q_learning, from episode number `episode` on
RECURSIVE TrainEpisodes(_, _, _, _, _, _, _)
TrainEpisodes(cfg, episode, epsilon, q_table, rewards, errors, s) ==
    IF episode >= cfg.n_episodes
    THEN [q_table |-> q_table, episode_rewards |-> rewards,
          episode_errors |-> errors, rng |-> s]
    ELSE
      LET path  == SimulateGbmPath(cfg.S0, cfg.r, cfg.sigma, cfg.T, cfg.n_steps, s)
          run   == TrainSteps(cfg, path.val, epsilon, 0, q_table, <<>>, 0, path.rng)
          err   == HedgingError(path.val, run.hedges, cfg.K, cfg.transaction_cost)
      IN  TrainEpisodes(cfg, episode + 1, DecayEpsilon(cfg, epsilon),
                        run.q_table, Append(rewards, run.total),
                        Append(errors, Abs(err)), run.rng)

\* train_q_learning
TrainQLearning(cfg, s) == TrainEpisodes(cfg, 0, EpsilonStart, <<>>, <<>>, <<>>, s)

\* a lookup that binds an absent key, as q_table.setdefault would
EvalLookupInsert(q_table, state) ==
    [action  |-> IF state \in DOMAIN q_table
                 THEN GreedyAction(q_table[state]) ELSE 1,
     q_table |-> WithKey(q_table, state)]

\* a lookup whose default is action 0
EvalLookupUnder(q_table, state) ==
    [action  |-> IF state \in DOMAIN q_table
                 THEN GreedyAction(q_table[state]) ELSE 0,
     q_table |-> q_table]

\* the lookup of evaluate_strategies: the action for a state, and the
\* table after it
EvalLookup(q_table, state) ==
    [action  |-> IF state \in DOMAIN q_table
                 THEN GreedyAction(q_table[state]) ELSE 1,
     q_table |-> q_table]

\* the RL hedge of evaluate_strategies at step t of a path
RlHedge(cfg, q_table, prices, t) ==
    LET at == StateAt(cfg, prices, t)
    IN  ApplyAction(at.bs_delta, EvalLookup(q_table, at.state).action)

\* the loop of evaluate_strategies, from path number path_idx on
RECURSIVE EvaluatePaths(_, _, _, _, _, _, _)
EvaluatePaths(cfg, q_table, n_paths, path_idx, res, sample, s) ==
    IF path_idx >= n_paths
    THEN [rl_errors |-> res.rl_errors, bs_errors |-> res.bs_errors,
          sample |-> sample, rng |-> s]
    ELSE
      LET path == SimulateGbmPath(cfg.S0, cfg.r, cfg.sigma, cfg.T, cfg.n_steps, s)
          rl_hedges == Vec([t \in 1..cfg.n_steps |->
                              RlHedge(cfg, q_table, path.val, t - 1)])
          bs_hedges == Vec([t \in 1..cfg.n_steps |->
                              StateAt(cfg, path.val, t - 1).bs_delta])
          rl_err == HedgingError(path.val, rl_hedges, cfg.K, cfg.transaction_cost)
          bs_err == HedgingError(path.val, bs_hedges, cfg.K, cfg.transaction_cost)
      IN  EvaluatePaths(cfg, q_table, n_paths, path_idx + 1,
                        [rl_errors |-> Append(res.rl_errors, rl_err),
                         bs_errors |-> Append(res.bs_errors, bs_err)],
                        IF path_idx = 0
                        THEN [path |-> path.val, rl_hedges |-> rl_hedges,
                              bs_hedges |-> bs_hedges]
                        ELSE sample,
                        path.rng)

\* evaluate_strategies
EvaluateStrategies(cfg, q_table, n_paths, s) ==
    EvaluatePaths(cfg, q_table, n_paths, 0,
                  [rl_errors |-> <<>>, bs_errors |-> <<>>], <<>>, s)

(***************************************************************************)
(* silhouette_score (stock-clustering.py).  Distances are square roots on  *)
(* the fixed-point grid; the mean of an empty list is NaN.                 *)
(***************************************************************************)
SMaxPoints == 4

\* np.sqrt(np.sum((X[i] - x) ** 2))
SilDist(x, y) == SqrtFx(Dist2(x, y) * ONE)

\* np.mean of the distances from row x to the rows X[j], j in the set js
RECURSIVE SilDistSum(_, _, _)
SilDistSum(X, x, js) ==
    IF js = {} THEN 0
    ELSE LET j == CHOOSE m \in js : TRUE
         IN  SilDist(x, X[j]) + SilDistSum(X, x, js \ {j})
SilMeanDist(X, x, js) ==
    IF js = {} THEN NaN ELSE SilDistSum(X, x, js) \div Cardinality(js)

\* the rows with label l
SilCluster(labels, l) == {j \in 1..Len(labels) : labels[j] = l}

\* a_i: the rows of the own cluster that np.array_equal tells from X[i]
SilA(X, labels, i) ==
    LET same == SilCluster(labels, labels[i])
    IN  IF Cardinality(same) > 1
        THEN SilMeanDist(X, X[i], {j \in same : X[j] # X[i]})
        ELSE 0

\* b_i: the least mean distance to the rows of another cluster
SilB(X, labels, i) ==
    LET others == {labels[j] : j \in 1..Len(labels)} \ {labels[i]}
        avg(l) == SilMeanDist(X, X[i], SilCluster(labels, l))
    IN  IF others = {} THEN 0
        ELSE avg(CHOOSE l \in others : \A m \in others : avg(l) <= avg(m))

\* Python's max(a, b): b if b > a, else a (so a NaN a is returned)
PyMax(a, b) == IF FloatGt(b, a) THEN b ELSE a

\* s_i from a_i and b_i
SilCoefficient(a, b) ==
    IF FloatGt(PyMax(a, b), 0) THEN ((b - a) * ONE) \div PyMax(a, b) ELSE 0

\* np.mean(silhouette_vals)
SilhouetteScore(X, labels) ==
    IF Cardinality({labels[j] : j \in 1..Len(labels)}) <= 1 THEN 0
    ELSE SumSeq([i \in 1..Len(X) |->
                    SilCoefficient(SilA(X, labels, i), SilB(X, labels, i))])
         \div Len(X)

(***************************************************************************)
(* standardize_features (stock-clustering.py), and the same lines inlined  *)
(* in handler.do_GET of anomaly-detection.py.  The arithmetic is binary    *)
(* floating point with a mantissa of ZMantissa bits, every operation       *)
(* rounded to nearest, ties to even; numbers are counted in units of       *)
(* 1 / ZOne.  A division by zero gives inf or NaN, written NotFinite.      *)
(***************************************************************************)
ZMaxRows == 3
ZMantissa == 3
ZDim == 2
ZOne == 64
ZValues == {0, ZOne, ZOne + ZOne \div 2}
ZMatrices == UNION {[1..n -> [1..ZDim -> ZValues]] : n \in 0..ZMaxRows}

NotFinite == 0 - 1000000000

RECURSIVE BitLen(_)
BitLen(q) == IF q = 0 THEN 0 ELSE 1 + BitLen(q \div 2)

\* n / d >= 0 rounded to ZMantissa significant bits
FRoundPos(n, d) ==
    LET step == 2 ^ Max2(0, BitLen(n \div d) - ZMantissa)
        k    == n \div (d * step)
        r    == n % (d * step)
    IN  IF 2 * r > d * step \/ (2 * r = d * step /\ k % 2 = 1)
        THEN (k + 1) * step ELSE k * step

\* n / d rounded, d > 0
FRound(n, d) == IF n < 0 THEN 0 - FRoundPos(0 - n, d) ELSE FRoundPos(n, d)

\* the sum of column c over rows i.. of F, added to acc row by row
RECURSIVE FColSum(_, _, _, _)
FColSum(F, c, i, acc) ==
    IF i > Len(F) THEN acc ELSE FColSum(F, c, i + 1, FRound(acc + F[i][c], 1))

\* np.mean(features, axis=0)[c]
ZMean(F, c) ==
    IF Len(F) = 0 THEN NotFinite ELSE FRound(FColSum(F, c, 1, 0), Len(F))

\* features - mean, column c
ZCentered(F, c) == Vec([i \in 1..Len(F) |-> <<FRound(F[i][c] - ZMean(F, c), 1)>>])

\* np.sqrt
FSqrt(v) == IF v <= 0 THEN 0 ELSE FRound(SqrtStep(v * 256, v * 256), 16)

\* np.std(features, axis=0)[c]
ZStd(F, c) ==
    IF Len(F) = 0 THEN NotFinite
    ELSE LET dev == ZCentered(F, c)
             sq  == Vec([i \in 1..Len(F) |->
                        <<FRound((dev[i][1] * dev[i][1]) \div ZOne, 1)>>])
         IN  FSqrt(FRound(FColSum(sq, 1, 1, 0), Len(F)) * ZOne)

\* a / b on floats, the quotient on the grid of ONE
FloatDiv(a, b) ==
    IF a = NotFinite \/ b = NotFinite \/ b = 0 THEN NotFinite
    ELSE (a * ONE) \div b

\* std without `std[std == 0] = 1`
ZStdRaw(std) == std

\* std[std == 0] = 1
ZStdOrOne(std) == IF std = 0 THEN ZOne ELSE std

\* standardize_features
StandardizeFeatures(F) ==
    Vec([i \in 1..Len(F) |->
        Vec([c \in 1..ZDim |->
            FloatDiv(ZCentered(F, c)[i][1], ZStdOrOne(ZStd(F, c)))])])

(***************************************************************************)
(* Engines that are not running: their variables rest at these values.     *)
(***************************************************************************)
ForestIdle ==
    /\ forest = [n_trees |-> 0, max_samples |-> 0, contamination |-> 0,
                 trees |-> <<>>, threshold |-> NoThreshold]
    /\ fitX = <<>>
    /\ fitCalls = 0
    /\ fitDone = 0
    /\ out = [op |-> "idle", X |-> <<>>, val |-> <<>>]

KIdle ==
    /\ km = [status |-> "idle"]
    /\ kmTrace = <<>>

HIdle == hmm = [status |-> "idle"]

HandlersIdle ==
    /\ runs = <<>>
    /\ conc = <<>>

RlIdle == rl = [status |-> "idle"]

FnIdle == fn = [op |-> "idle"]

(***************************************************************************)
(* The life of one forest: constructed, then fit / score_samples / predict *)
(* in any order.                                                           *)
(***************************************************************************)
InitForest ==
    /\ rng \in 0..MaxSeed
    /\ \E nt \in 0..MaxTrees, ms \in 0..MaxSamples, cont \in Contaminations :
          forest = NewForest(nt, ms, cont)
    /\ fitX = <<>>
    /\ fitCalls = 0
    /\ fitDone = 0
    /\ out = [op |-> "new", X |-> <<>>, val |-> <<>>]
    /\ KIdle
    /\ HIdle
    /\ HandlersIdle
    /\ RlIdle
    /\ FnIdle

Fit(X) ==
    /\ fitCalls < MaxFits
    /\ fitCalls' = fitCalls + 1
    /\ IF FitRaises(forest, X)
       THEN /\ out' = [op |-> "fit raised", X |-> X, val |-> <<>>]
            /\ UNCHANGED <<rng, forest, fitX, fitDone, kmVars, hmmVars, handlerVars, concVars, rlVars, fnVars>>
       ELSE LET r == ForestFit(forest, X, rng)
            IN  /\ forest' = r.forest
                /\ rng' = r.rng
                /\ fitX' = X
                /\ fitDone' = fitDone + 1
                /\ out' = [op |-> "fit", X |-> X, val |-> <<>>]
                /\ UNCHANGED <<kmVars, hmmVars, handlerVars, concVars, rlVars, fnVars>>

Score(X) ==
    /\ out' = [op |-> "score_samples", X |-> X, val |-> ScoreSamples(forest, X)]
    /\ UNCHANGED <<rng, forest, fitX, fitCalls, fitDone, kmVars, hmmVars, handlerVars, concVars, rlVars, fnVars>>

DoPredict(X) ==
    /\ forest.threshold # NoThreshold
    /\ out' = [op |-> "predict", X |-> X, val |-> Predict(forest, X)]
    /\ UNCHANGED <<rng, forest, fitX, fitCalls, fitDone, kmVars, hmmVars, handlerVars, concVars, rlVars, fnVars>>

NextForest == \E X \in Matrices : Fit(X) \/ Score(X) \/ DoPredict(X)

SpecForest == InitForest /\ [][NextForest]_vars

(***************************************************************************)
(* One call kmeans(X, k, max_iters): k-means++ initialisation, then one    *)
(* step per pass of the loop, then the inertia and the return.             *)
(***************************************************************************)
NoInertia == 0 - 1

InitKMeans ==
    /\ rng = 0
    /\ ForestIdle
    /\ \E X \in KDatasets, k \in 1..KMaxK, mi \in 0..KMaxIters, tol \in KTols :
          km = [status |-> "called", X |-> X, k |-> k, max_iters |-> mi,
                tol |-> tol,
                centroids |-> <<>>, labels |-> <<>>, it |-> 0,
                inertia |-> NoInertia]
    /\ kmTrace = <<>>
    /\ HIdle
    /\ HandlersIdle
    /\ RlIdle
    /\ FnIdle

\* centroids = kmeans_plusplus_init(X, k), from any state of the generator
KppStart ==
    /\ km.status = "called"
    /\ \E o \in KppOutcomes(km.X, km.k) :
          km' = IF o.raised THEN [km EXCEPT !.status = "raised"]
                ELSE [km EXCEPT !.status = "loop",
                                !.centroids = CentroidsOf(km.X, o.chosen)]
    /\ UNCHANGED <<rng, forestVars, kmTrace, hmmVars, handlerVars, concVars, rlVars, fnVars>>

\* a pass of the loop that never breaks
LloydIterationNoBreak ==
    /\ km.status = "loop"
    /\ km.it < km.max_iters
    /\ LET labels == Assign(km.X, km.centroids)
           new    == Update(km.X, labels, km.centroids)
       IN  /\ km' = [km EXCEPT !.labels = labels, !.it = km.it + 1,
                               !.centroids = new]
           /\ kmTrace' = Append(kmTrace, [labels |-> labels,
                                          centroids |-> km.centroids,
                                          new_centroids |-> new])
    /\ UNCHANGED <<rng, forestVars, hmmVars, handlerVars, concVars, rlVars, fnVars>>

\* one pass of the loop: assign, update, then break or take the new centroids
LloydIteration ==
    /\ km.status = "loop"
    /\ km.it < km.max_iters
    /\ LET labels == Assign(km.X, km.centroids)
           new    == Update(km.X, labels, km.centroids)
       IN  /\ km' = IF ConvergedTol(new, km.centroids, km.tol)
                    THEN [km EXCEPT !.labels = labels, !.it = km.it + 1,
                                    !.status = "break"]
                    ELSE [km EXCEPT !.labels = labels, !.it = km.it + 1,
                                    !.centroids = new]
           /\ kmTrace' = Append(kmTrace, [labels |-> labels,
                                          centroids |-> km.centroids,
                                          new_centroids |-> new])
    /\ UNCHANGED <<rng, forestVars, hmmVars, handlerVars, concVars, rlVars, fnVars>>

\* after the loop: the inertia of the returned labels and centroids; with
\* max_iters = 0 `labels` was never bound and the code raises
KReturn ==
    /\ \/ km.status = "break"
       \/ km.status = "loop" /\ km.it >= km.max_iters
    /\ km' = IF km.it = 0 THEN [km EXCEPT !.status = "raised"]
             ELSE [km EXCEPT !.status = "done",
                             !.inertia = Inertia(km.X, km.labels, km.centroids)]
    /\ UNCHANGED <<rng, forestVars, kmTrace, hmmVars, handlerVars, concVars, rlVars, fnVars>>

NextKMeans == KppStart \/ LloydIteration \/ KReturn

SpecKMeans == InitKMeans /\ [][NextKMeans]_vars

(***************************************************************************)
(* One call fit_hmm(returns, n_states, n_iterations): initialisation, one  *)
(* step per pass of the loop, then the Viterbi decoding and the return.    *)
(***************************************************************************)
ConvNum == 1        \* the convergence threshold 1e-6 = ConvNum / ConvDen
ConvDen == 1000000

\* LlConverged with a threshold of 1e-1
LlConvergedLoose(a, b) == Abs(a - b) < ONE \div 10

\* abs(log_likelihoods[-1] - log_likelihoods[-2]) < 1e-6
LlConverged(a, b) == Abs(a - b) < (ConvNum * ONE + ConvDen - 1) \div ConvDen

InitHMM ==
    /\ rng = 0
    /\ ForestIdle
    /\ KIdle
    /\ HandlersIdle
    /\ \E obs \in HObservations, n \in 2..HMaxStates, ni \in 0..HMaxIters :
          hmm = [status |-> "called", returns |-> obs, n_states |-> n,
                 n_iterations |-> ni, params |-> <<>>, log_likelihoods |-> <<>>,
                 i |-> 0, states |-> <<>>]
    /\ RlIdle
    /\ FnIdle

\* where the call stands: before the initialisation, at the head of the
\* loop with a pass to run, or past the loop
AtInitialize == hmm.status = "called"
AtIteration == hmm.status = "loop" /\ hmm.i < hmm.n_iterations
AtReturn ==
    \/ hmm.status = "break"
    \/ hmm.status = "loop" /\ hmm.i >= hmm.n_iterations

\* params = initialize_hmm(n_states, returns)
HmmInitialize ==
    /\ AtInitialize
    /\ hmm' = [hmm EXCEPT !.status = "loop",
                          !.params = InitializeHmm(hmm.n_states, hmm.returns)]
    /\ UNCHANGED <<rng, forestVars, kmVars, handlerVars, concVars, rlVars, fnVars>>

\* one pass of the loop, for i = hmm.i: a Baum-Welch iteration, the
\* log-likelihood appended, then the convergence check
HmmIteration ==
    /\ AtIteration
    /\ LET r   == BaumWelchIteration(hmm.returns, hmm.params)
           lls == Append(hmm.log_likelihoods, r.log_likelihood)
           brk == hmm.i > 0 /\ LlConverged(lls[Len(lls)], lls[Len(lls) - 1])
       IN  hmm' = [hmm EXCEPT !.params = r.params,
                              !.log_likelihoods = lls,
                              !.i = hmm.i + 1,
                              !.status = IF brk THEN "break" ELSE "loop"]
    /\ UNCHANGED <<rng, forestVars, kmVars, handlerVars, concVars, rlVars, fnVars>>

\* after the loop: states = viterbi_decode(returns, params), and the return
HmmReturn ==
    /\ AtReturn
    /\ hmm' = [hmm EXCEPT !.status = "done",
                          !.states = ViterbiDecode(hmm.returns, hmm.params)]
    /\ UNCHANGED <<rng, forestVars, kmVars, handlerVars, concVars, rlVars, fnVars>>

NextHMM == HmmInitialize \/ HmmIteration \/ HmmReturn

SpecHMM == InitHMM /\ [][NextHMM]_vars

(***************************************************************************)
(* The request handlers.  One process serves requests one after another;   *)
(* the global generator lives as long as the process.  A handler seeds the *)
(* generator and then runs its engine on the request's input.  The loop    *)
(* limits the handlers fix (max_iters 100, n_iterations 50, n_steps 50,    *)
(* 100 test paths) are held at the bounds of the model.                    *)
(***************************************************************************)
HandlerSeed == 42

\* the generator left where it was
KeepState(s, n) == s

\* np.random.seed(n), whatever the state s of the generator was
Reseed(s, n) == Seed(n)

\* the loop of kmeans as a whole, from pass number it on
RECURSIVE LloydLoop(_, _, _, _, _)
LloydLoop(X, cents, labels, it, max_iters) ==
    IF it >= max_iters THEN [labels |-> labels, centroids |-> cents, it |-> it]
    ELSE LET lab == Assign(X, cents)
             new == Update(X, lab, cents)
         IN  IF Converged(new, cents)
             THEN [labels |-> lab, centroids |-> cents, it |-> it + 1]
             ELSE LloydLoop(X, new, lab, it + 1, max_iters)

\* kmeans as a whole: what it returns, or that it raised, and the
\* generator after it
KMeans(X, k, max_iters, s) ==
    LET init == KppInit(X, k, s)
        loop == LloydLoop(X, CentroidsOf(X, init.chosen), <<>>, 0, max_iters)
    IN  IF init.raised \/ max_iters = 0
        THEN [raised |-> TRUE, labels |-> <<>>, centroids |-> <<>>,
              inertia |-> NoInertia, rng |-> init.rng]
        ELSE [raised |-> FALSE, labels |-> loop.labels,
              centroids |-> loop.centroids,
              inertia |-> Inertia(X, loop.labels, loop.centroids),
              rng |-> init.rng]

\* the loop of fit_hmm as a whole, from pass number i on
RECURSIVE FitLoop(_, _, _, _, _)
FitLoop(returns, params, lls, i, n_iterations) ==
    IF i >= n_iterations THEN [params |-> params, log_likelihoods |-> lls]
    ELSE LET r    == BaumWelchIteration(returns, params)
             lls1 == Append(lls, r.log_likelihood)
         IN  IF i > 0 /\ LlConverged(lls1[Len(lls1)], lls1[Len(lls1) - 1])
             THEN [params |-> r.params, log_likelihoods |-> lls1]
             ELSE FitLoop(returns, r.params, lls1, i + 1, n_iterations)

\* fit_hmm as a whole
FitHmm(returns, n_states, n_iterations) ==
    LET fit == FitLoop(returns, InitializeHmm(n_states, returns), <<>>, 0,
                       n_iterations)
    IN  [params |-> fit.params,
         states |-> ViterbiDecode(returns, fit.params),
         log_likelihoods |-> fit.log_likelihoods]

\* the requests
AnomalyRequests ==
    {[engine |-> "anomaly", X |-> X, n_trees |-> nt, contamination |-> c] :
        X \in {M \in Matrices : Len(M) = MaxRows /\ M[1] # M[MaxRows]},
        nt \in {MaxTrees}, c \in {50}}
ClusteringRequests ==
    {[engine |-> "clustering", X |-> X, n_clusters |-> k] :
        X \in {D \in KDatasets : /\ Len(D) >= KMaxPoints - 1
                                 /\ \A i, j \in 1..Len(D) : D[i] = D[j] => i = j},
        k \in {KMaxK}}
HedgingRequests ==
    {[engine |-> "hedging",
      cfg |-> [S0 |-> S0, K |-> 100 * ONE, T |-> 250, r |-> 50, sigma |-> 200,
               n_episodes |-> ne, n_steps |-> RMaxSteps, transaction_cost |-> 1]] :
        S0 \in {95 * ONE, 100 * ONE}, ne \in 1..RMaxEpisodes}
RegimeRequests ==
    {[engine |-> "regime", returns |-> obs, n_states |-> 2] :
        obs \in {o \in HObservations :
                    Len(o) = HMaxT /\ o[1] = 0 /\ o[2] # 0 /\ o[HMaxT] # 0}}
Requests ==
    AnomalyRequests \cup ClusteringRequests \cup HedgingRequests \cup RegimeRequests

\* anomaly-detection.py handler.do_GET, from the seeding on
AnomalyRun(req, s) ==
    LET f      == NewForest(req.n_trees, Min2(256, Len(req.X)), req.contamination)
        fit    == ForestFit(f, req.X, Reseed(s, HandlerSeed))
    IN  [result |-> [threshold   |-> fit.forest.threshold,
                     scores      |-> ScoreSamples(fit.forest, req.X),
                     predictions |-> Predict(fit.forest, req.X)],
         rng |-> fit.rng]

\* stock-clustering.py handler.do_GET, from the seeding on
ClusteringRun(req, s) ==
    LET r == KMeans(req.X, req.n_clusters, KMaxIters, Reseed(s, HandlerSeed))
    IN  [result |-> [raised |-> r.raised, labels |-> r.labels,
                     centroids |-> r.centroids, inertia |-> r.inertia],
         rng |-> r.rng]

\* rl-hedging.py handler.do_GET, from the seeding on
HedgingRun(req, s) ==
    LET tr == TrainQLearning(req.cfg, Reseed(s, HandlerSeed))
        ev == EvaluateStrategies(req.cfg, tr.q_table, RMaxPaths, tr.rng)
    IN  [result |-> [q_table |-> tr.q_table,
                     episode_rewards |-> tr.episode_rewards,
                     episode_errors |-> tr.episode_errors,
                     rl_errors |-> ev.rl_errors, bs_errors |-> ev.bs_errors,
                     sample |-> ev.sample],
         rng |-> ev.rng]

\* regime-detection.py handler.do_GET: fit_hmm draws nothing
RegimeRun(req, s) ==
    [result |-> FitHmm(req.returns, req.n_states, HMaxIters), rng |-> s]

InitHandlers ==
    /\ rng \in 0..MaxSeed
    /\ ForestIdle
    /\ KIdle
    /\ HIdle
    /\ runs = <<>>
    /\ conc = <<>>
    /\ RlIdle
    /\ FnIdle

\* one request served from start to end
Serve(req, run) ==
    /\ Len(runs) < MaxRuns
    /\ runs' = Append(runs, [req |-> req, pre |-> rng, result |-> run.result])
    /\ rng' = run.rng
    /\ UNCHANGED <<forestVars, kmVars, hmmVars, concVars, rlVars, fnVars>>

ServeAnomaly == \E req \in AnomalyRequests : Serve(req, AnomalyRun(req, rng))
ServeClustering == \E req \in ClusteringRequests : Serve(req, ClusteringRun(req, rng))
ServeHedging == \E req \in HedgingRequests : Serve(req, HedgingRun(req, rng))
ServeRegime == \E req \in RegimeRequests : Serve(req, RegimeRun(req, rng))

NextHandlers == ServeAnomaly \/ ServeClustering \/ ServeHedging \/ ServeRegime

SpecHandlers == InitHandlers /\ [][NextHandlers]_vars

(***************************************************************************)
(* Two requests served at once by one process.  Every engine draws from    *)
(* the module-level np.random, so the two runs work on the one generator   *)
(* `rng`; the interpreter may switch threads between any two draws.        *)
(***************************************************************************)
ConcJobs ==
    {[kind |-> "kpp", X |-> req.X, k |-> req.n_clusters] :
        req \in ClusteringRequests}
    \cup {[kind |-> "gbm", cfg |-> [req.cfg EXCEPT !.n_episodes = 1]] :
              req \in HedgingRequests}

\* a run that has not yet reached its np.random.seed(42)
NewRun(job) ==
    [job |-> job, pc |-> "seed", raised |-> FALSE,
     acc |-> IF job.kind = "gbm" THEN <<job.cfg.S0>> ELSE <<>>]

\* the whole of the run on a generator of its own
RunAlone(job) ==
    IF job.kind = "kpp"
    THEN LET r == KppInit(job.X, job.k, Seed(HandlerSeed))
         IN  [raised |-> r.raised, acc |-> r.chosen]
    ELSE LET c == job.cfg
         IN  [raised |-> FALSE,
              acc |-> SimulateGbmPath(c.S0, c.r, c.sigma, c.T, c.n_steps,
                                      Seed(HandlerSeed)).val]

InitConc ==
    /\ rng \in 0..MaxSeed
    /\ ForestIdle
    /\ KIdle
    /\ HIdle
    /\ runs = <<>>
    /\ conc \in {<<NewRun(a), NewRun(b)>> : a, b \in ConcJobs}
    /\ RlIdle
    /\ FnIdle

\* handler.do_GET: np.random.seed(42)
ThreadSeed(t) ==
    /\ conc[t].pc = "seed"
    /\ rng' = Reseed(rng, HandlerSeed)
    /\ conc' = [conc EXCEPT ![t].pc = "draw"]
    /\ UNCHANGED <<forestVars, kmVars, hmmVars, handlerVars, rlVars, fnVars>>

\* kmeans_plusplus_init: the next np.random.randint / np.random.choice
ThreadKppDraw(t) ==
    /\ conc[t].pc = "draw"
    /\ conc[t].job.kind = "kpp"
    /\ LET d == KppStep(conc[t].job.X, conc[t].acc, rng)
       IN  /\ rng' = d.rng
           /\ conc' = [conc EXCEPT
                         ![t].acc = d.chosen,
                         ![t].raised = d.raised,
                         ![t].pc = IF d.raised \/ Len(d.chosen) >= conc[t].job.k
                                   THEN "done" ELSE "draw"]
    /\ UNCHANGED <<forestVars, kmVars, hmmVars, handlerVars, rlVars, fnVars>>

\* simulate_gbm_path: the next np.random.normal
ThreadGbmDraw(t) ==
    /\ conc[t].pc = "draw"
    /\ conc[t].job.kind = "gbm"
    /\ LET c == conc[t].job.cfg
           d == GbmStep(conc[t].acc, c.r, c.sigma, c.T \div c.n_steps, rng)
       IN  /\ rng' = d.rng
           /\ conc' = [conc EXCEPT
                         ![t].acc = d.val,
                         ![t].pc = IF Len(d.val) > c.n_steps
                                   THEN "done" ELSE "draw"]
    /\ UNCHANGED <<forestVars, kmVars, hmmVars, handlerVars, rlVars, fnVars>>

ConcSeed == \E t \in DOMAIN conc : ThreadSeed(t)
ConcKppDraw == \E t \in DOMAIN conc : ThreadKppDraw(t)
ConcGbmDraw == \E t \in DOMAIN conc : ThreadGbmDraw(t)

NextConc == ConcSeed \/ ConcKppDraw \/ ConcGbmDraw

SpecConc == InitConc /\ [][NextConc]_vars

(***************************************************************************)
(* One call silhouette_score(X, labels).                                   *)
(***************************************************************************)
InitSilhouette ==
    /\ rng = 0
    /\ ForestIdle
    /\ KIdle
    /\ HIdle
    /\ HandlersIdle
    /\ RlIdle
    /\ \E X \in {D \in KDatasets : Len(D) <= SMaxPoints} :
          \E labels \in [1..Len(X) -> 0..(KMaxK - 1)] :
              fn = [op |-> "called", f |-> "silhouette_score",
                    X |-> X, labels |-> labels]

Silhouette ==
    /\ fn.op = "called"
    /\ fn.f = "silhouette_score"
    /\ fn' = [op |-> "returned", f |-> fn.f, X |-> fn.X, labels |-> fn.labels,
              val |-> SilhouetteScore(fn.X, fn.labels)]
    /\ UNCHANGED <<rng, forestVars, kmVars, hmmVars, handlerVars, concVars, rlVars>>

NextSilhouette == Silhouette

SpecSilhouette == InitSilhouette /\ [][NextSilhouette]_vars

(***************************************************************************)
(* One call IsolationTree(max_depth).fit(X), from any state of the         *)
(* generator.                                                              *)
(***************************************************************************)
TMaxSeed == 15

InitTree ==
    /\ rng \in 0..TMaxSeed
    /\ ForestIdle
    /\ KIdle
    /\ HIdle
    /\ HandlersIdle
    /\ RlIdle
    /\ \E X \in Matrices, md \in 0..CeilLog2(MaxRows) :
          fn = [op |-> "called", f |-> "IsolationTree.fit", X |-> X,
                max_depth |-> md]

TreeFitCall ==
    /\ fn.op = "called"
    /\ fn.f = "IsolationTree.fit"
    /\ \E r \in {TreeFit(fn.X, 0, fn.max_depth, rng)} :
          /\ fn' = [op |-> "returned", f |-> fn.f, X |-> fn.X,
                    max_depth |-> fn.max_depth, val |-> r.tree]
          /\ rng' = r.rng
    /\ UNCHANGED <<forestVars, kmVars, hmmVars, handlerVars, concVars, rlVars>>

NextTree == TreeFitCall

SpecTree == InitTree /\ [][NextTree]_vars

(***************************************************************************)
(* One call standardize_features(features).                                *)
(***************************************************************************)
InitStandardize ==
    /\ rng = 0
    /\ ForestIdle
    /\ KIdle
    /\ HIdle
    /\ HandlersIdle
    /\ RlIdle
    /\ \E F \in ZMatrices :
          fn = [op |-> "called", f |-> "standardize_features", X |-> F]

Standardize ==
    /\ fn.op = "called"
    /\ fn.f = "standardize_features"
    /\ fn' = [op |-> "returned", f |-> fn.f, X |-> fn.X,
              val |-> StandardizeFeatures(fn.X)]
    /\ UNCHANGED <<rng, forestVars, kmVars, hmmVars, handlerVars, concVars, rlVars>>

NextStandardize == Standardize

SpecStandardize == InitStandardize /\ [][NextStandardize]_vars

(***************************************************************************)
(* One call train_q_learning(...) followed by evaluate_strategies(...) on  *)
(* the table it returned, as handler.do_GET of rl-hedging.py makes them:   *)
(* one step per pass of the inner loops, and one around each path.         *)
(***************************************************************************)
RMaxSeed == 3

NoStep == [state |-> <<>>, action |-> 0 - 1, present |-> FALSE, reward |-> 0]

InitRL ==
    /\ rng \in {Seed(HandlerSeed + n) : n \in 0..RMaxSeed}
    /\ ForestIdle
    /\ KIdle
    /\ HIdle
    /\ HandlersIdle
    /\ FnIdle
    /\ \E req \in HedgingRequests :
          rl = [status |-> "episode", cfg |-> req.cfg, n_paths |-> RMaxPaths,
                episode |-> 0, epsilon |-> EpsilonStart, q_table |-> <<>>,
                prices |-> <<>>, t |-> 0, hedges |-> <<>>, total |-> 0,
                episode_rewards |-> <<>>, episode_errors |-> <<>>,
                q_trained |-> <<>>, path_idx |-> 0, rl_errors |-> <<>>,
                bs_errors |-> <<>>, sample |-> <<>>, last |-> NoStep]

RlUnchanged == UNCHANGED <<forestVars, kmVars, hmmVars, handlerVars, concVars, fnVars>>

\* train_q_learning: prices = simulate_gbm_path(...) of an episode
RlSimulateTrain ==
    /\ rl.status = "episode"
    /\ rl.episode < rl.cfg.n_episodes
    /\ \E path \in {SimulateGbmPath(rl.cfg.S0, rl.cfg.r, rl.cfg.sigma, rl.cfg.T,
                                     rl.cfg.n_steps, rng)} :
          /\ rl' = [rl EXCEPT !.status = "step", !.prices = path.val, !.t = 0,
                              !.hedges = <<>>, !.total = 0]
          /\ rng' = path.rng
    /\ RlUnchanged

\* train_q_learning: one pass of `for t in range(n_steps)`
RlTrainStep ==
    /\ rl.status = "step"
    /\ rl.t < rl.cfg.n_steps
    /\ \E d \in {TrainStep(rl.cfg, rl.prices, rl.epsilon, rl.t, rl.q_table,
                             rl.hedges, rl.total, rng)} :
          /\ rl' = [rl EXCEPT !.t = rl.t + 1, !.q_table = d.q_table,
                              !.hedges = d.hedges, !.total = d.total,
                              !.last = [state |-> d.state, action |-> d.action,
                                        present |-> d.state \in DOMAIN rl.q_table,
                                        reward |-> d.reward]]
          /\ rng' = d.rng
    /\ RlUnchanged

\* train_q_learning: the end of an episode
RlEpisodeEnd ==
    /\ rl.status = "step"
    /\ rl.t >= rl.cfg.n_steps
    /\ LET err == HedgingError(rl.prices, rl.hedges, rl.cfg.K,
                               rl.cfg.transaction_cost)
       IN  rl' = [rl EXCEPT !.status = "episode", !.episode = rl.episode + 1,
                           !.episode_rewards = Append(rl.episode_rewards, rl.total),
                           !.episode_errors = Append(rl.episode_errors, Abs(err)),
                           !.epsilon = DecayEpsilon(rl.cfg, rl.epsilon)]
    /\ UNCHANGED rng
    /\ RlUnchanged

\* train_q_learning returns; evaluate_strategies is called with its table
RlTrainReturn ==
    /\ rl.status = "episode"
    /\ rl.episode >= rl.cfg.n_episodes
    /\ rl' = [rl EXCEPT !.status = "path", !.q_trained = rl.q_table,
                        !.path_idx = 0, !.last = NoStep]
    /\ UNCHANGED rng
    /\ RlUnchanged

\* evaluate_strategies: prices = simulate_gbm_path(...) of a test path
RlSimulateEval ==
    /\ rl.status = "path"
    /\ rl.path_idx < rl.n_paths
    /\ \E path \in {SimulateGbmPath(rl.cfg.S0, rl.cfg.r, rl.cfg.sigma, rl.cfg.T,
                                     rl.cfg.n_steps, rng)} :
          /\ rl' = [rl EXCEPT !.status = "eval", !.prices = path.val, !.t = 0,
                              !.hedges = <<>>]
          /\ rng' = path.rng
    /\ RlUnchanged

\* evaluate_strategies: one pass of the RL loop `for t in range(n_steps)`
RlEvalStep ==
    /\ rl.status = "eval"
    /\ rl.t < rl.cfg.n_steps
    /\ \E at \in {StateAt(rl.cfg, rl.prices, rl.t)} :
        \E lk \in {EvalLookup(rl.q_table, at.state)} :
          rl' = [rl EXCEPT !.t = rl.t + 1, !.q_table = lk.q_table,
                           !.hedges = Append(rl.hedges,
                                             ApplyAction(at.bs_delta, lk.action)),
                           !.last = [state |-> at.state, action |-> lk.action,
                                     present |-> at.state \in DOMAIN rl.q_table,
                                     reward |-> 0]]
    /\ UNCHANGED rng
    /\ RlUnchanged

\* evaluate_strategies: the errors of a test path, RL and BS
RlPathEnd ==
    /\ rl.status = "eval"
    /\ rl.t >= rl.cfg.n_steps
    /\ LET c         == rl.cfg
           bs_hedges == Vec([t \in 1..c.n_steps |->
                               StateAt(c, rl.prices, t - 1).bs_delta])
           rl_err    == HedgingError(rl.prices, rl.hedges, c.K, c.transaction_cost)
           bs_err    == HedgingError(rl.prices, bs_hedges, c.K, c.transaction_cost)
       IN  rl' = [rl EXCEPT !.status = "path", !.path_idx = rl.path_idx + 1,
                           !.rl_errors = Append(rl.rl_errors, rl_err),
                           !.bs_errors = Append(rl.bs_errors, bs_err),
                           !.sample = IF rl.path_idx = 0
                                      THEN [path |-> rl.prices,
                                            rl_hedges |-> rl.hedges,
                                            bs_hedges |-> bs_hedges]
                                      ELSE rl.sample]
    /\ UNCHANGED rng
    /\ RlUnchanged

\* evaluate_strategies returns
RlEvalReturn ==
    /\ rl.status = "path"
    /\ rl.path_idx >= rl.n_paths
    /\ rl' = [rl EXCEPT !.status = "done"]
    /\ UNCHANGED rng
    /\ RlUnchanged

NextRL ==
    \/ RlSimulateTrain \/ RlTrainStep \/ RlEpisodeEnd \/ RlTrainReturn
    \/ RlSimulateEval \/ RlEvalStep \/ RlPathEnd \/ RlEvalReturn

SpecRL == InitRL /\ [][NextRL]_vars

(***************************************************************************)
(* The validation of the stock-clustering handler (stock-clustering.py:    *)
(* 277-303): a request with n_clusters and a list of tickers, of which     *)
(* `n_data` distinct ones have data.  The handler either answers with an   *)
(* error or goes on to call kmeans(features_std, n_clusters).              *)
(***************************************************************************)
VMaxTickers == 14
VMaxClusters == 8

\* n_clusters = min(max(n_clusters, 2), min(6, len(tickers) // 2))
ClampClusters(n_clusters, n_tickers) ==
    Min2(Max2(n_clusters, 2), Min2(6, n_tickers \div 2))

InitValidate ==
    /\ rng = 0
    /\ ForestIdle
    /\ KIdle
    /\ HIdle
    /\ HandlersIdle
    /\ conc = <<>>
    /\ RlIdle
    /\ \E n \in (0 - 1)..VMaxClusters, nt \in 1..VMaxTickers :
        \E nd \in 0..nt :
          fn = [op |-> "clustering", status |-> "request", n_clusters |-> n,
                n_tickers |-> nt, n_data |-> nd, k |-> 0]

\* do_GET up to the call of kmeans: the clamp, the check of the stocks that
\* have data, and the features (an empty feature array makes
\* standardize_features raise)
ValidateClustering ==
    /\ fn.op = "clustering" /\ fn.status = "request"
    /\ \E k \in {ClampClusters(fn.n_clusters, fn.n_tickers)} :
          fn' = [fn EXCEPT !.k = k,
                           !.status = IF fn.n_data < k \/ fn.n_data = 0
                                      THEN "error" ELSE "kmeans"]
    /\ UNCHANGED <<rng, forestVars, kmVars, hmmVars, handlerVars, concVars, rlVars>>

NextValidate == ValidateClustering

SpecValidate == InitValidate /\ [][NextValidate]_vars

(***************************************************************************)
(* generate_signals (cointegration.py:111-139, market-analysis.py:389-417, *)
(* cointegration/index.py:63-88).  Z-scores and thresholds are in tenths;  *)
(* ZNan is the float NaN, with which every comparison is false.  The first *)
(* two files hold the same loop over a list ("list"); the third fills an   *)
(* array of zeros from index 1 on and keeps the position at a NaN          *)
(* ("array").                                                              *)
(***************************************************************************)
GMaxLen == 4
ZNan == 0 - 999
ZScores == {0 - 25, 0 - 10, 0, 10, 25, ZNan}
ZSequences == UNION {[1..n -> ZScores] : n \in 0..GMaxLen}
Thresholds == {[entry |-> 20, exit |-> 5], [entry |-> 5, exit |-> 20],
               [entry |-> 20, exit |-> 0 - 5]}

\* a < b on floats
ZLt(a, b) == a # ZNan /\ b # ZNan /\ a < b

\* a machine whose long position reverses to short above the entry
\* threshold
NextPositionReversing(position, z, th) ==
    CASE position = 0 ->
           IF ZLt(z, 0 - th.entry) THEN 1
           ELSE IF ZLt(th.entry, z) THEN 0 - 1 ELSE 0
      [] position = 1 ->
           IF ZLt(th.entry, z) THEN 0 - 1
           ELSE IF ZLt(0 - th.exit, z) THEN 0 ELSE 1
      [] OTHER -> IF ZLt(z, th.exit) THEN 0 ELSE 0 - 1

\* the body of the loop: the position after the z-score z
NextPosition(position, z, th) ==
    CASE position = 0 ->
           IF ZLt(z, 0 - th.entry) THEN 1
           ELSE IF ZLt(th.entry, z) THEN 0 - 1 ELSE 0
      [] position = 1 -> IF ZLt(0 - th.exit, z) THEN 0 ELSE 1
      [] OTHER -> IF ZLt(z, th.exit) THEN 0 ELSE 0 - 1

InitSignals ==
    /\ rng = 0
    /\ ForestIdle
    /\ KIdle
    /\ HIdle
    /\ HandlersIdle
    /\ conc = <<>>
    /\ RlIdle
    /\ \E zs \in ZSequences, th \in Thresholds :
          \/ fn = [op |-> "signals", impl |-> "list", status |-> "loop",
                   zscore |-> zs, th |-> th, i |-> 0, position |-> 0,
                   signals |-> <<>>]
          \/ fn = [op |-> "signals", impl |-> "array", status |-> "loop",
                   zscore |-> zs, th |-> th, i |-> 1, position |-> 0,
                   signals |-> [j \in 1..Len(zs) |-> 0]]

\* one pass of `for z in zscore` (cointegration.py, market-analysis.py)
SignalStep ==
    /\ fn.op = "signals" /\ fn.impl = "list" /\ fn.status = "loop"
    /\ fn.i < Len(fn.zscore)
    /\ \E p \in {NextPosition(fn.position, fn.zscore[fn.i + 1], fn.th)} :
          fn' = [fn EXCEPT !.position = p, !.i = fn.i + 1,
                           !.signals = Append(fn.signals, p)]
    /\ UNCHANGED <<rng, forestVars, kmVars, hmmVars, handlerVars, concVars, rlVars>>

\* one pass of `for i in range(1, len(zscore))` (cointegration/index.py)
SignalStepArray ==
    /\ fn.op = "signals" /\ fn.impl = "array" /\ fn.status = "loop"
    /\ fn.i < Len(fn.zscore)
    /\ \E p \in {IF fn.zscore[fn.i + 1] = ZNan THEN fn.position
                  ELSE NextPosition(fn.position, fn.zscore[fn.i + 1], fn.th)} :
          fn' = [fn EXCEPT !.position = p, !.i = fn.i + 1,
                           !.signals = [fn.signals EXCEPT ![fn.i + 1] = p]]
    /\ UNCHANGED <<rng, forestVars, kmVars, hmmVars, handlerVars, concVars, rlVars>>

\* return signals
SignalReturn ==
    /\ fn.op = "signals" /\ fn.status = "loop"
    /\ fn.i >= Len(fn.zscore)
    /\ fn' = [fn EXCEPT !.status = "returned"]
    /\ UNCHANGED <<rng, forestVars, kmVars, hmmVars, handlerVars, concVars, rlVars>>

NextSignals == SignalStep \/ SignalStepArray \/ SignalReturn

SpecSignals == InitSignals /\ [][NextSignals]_vars

(***************************************************************************)
(* One call evaluate_strategies(..., q_table, n_paths, ...) with a table   *)
(* given by the caller: the empty table, a table of one key, and a table   *)
(* that binds every key; transaction costs 0, 0.001 and 0.01.              *)
(***************************************************************************)
EMaxSeed == 3

\* a table that prefers action 2 in every state
FullTable ==
    [k \in {<<m, b, d>> : m \in 0..4, b \in 0..4, d \in 0..4} |-> <<0, 0, ONE>>]

EvalTables == {<<>>, <<0, 0, 0>> :> <<0, 0, ONE>>, FullTable}

InitEval ==
    /\ rng \in {Seed(HandlerSeed + n) : n \in 0..EMaxSeed}
    /\ ForestIdle
    /\ KIdle
    /\ HIdle
    /\ HandlersIdle
    /\ FnIdle
    /\ \E req \in HedgingRequests, q \in EvalTables, tc \in {0, 1, 10} :
          rl = [status |-> "path",
                cfg |-> [req.cfg EXCEPT !.transaction_cost = tc],
                n_paths |-> RMaxPaths,
                episode |-> 0, epsilon |-> EpsilonStart, q_table |-> q,
                prices |-> <<>>, t |-> 0, hedges |-> <<>>, total |-> 0,
                episode_rewards |-> <<>>, episode_errors |-> <<>>,
                q_trained |-> q, path_idx |-> 0, rl_errors |-> <<>>,
                bs_errors |-> <<>>, sample |-> <<>>, last |-> NoStep]

NextEval == RlSimulateEval \/ RlEvalStep \/ RlPathEnd \/ RlEvalReturn

SpecEval == InitEval /\ [][NextEval]_vars

(***************************************************************************)
(* Claims about the Isolation Forest, checked under SpecForest.            *)
(***************************************************************************)

\* a float in [0, 1] (NaN is not)
InUnitInterval(a) == a # NaN /\ 0 <= a /\ a <= ONE

\* C3: score_samples returns one score per input row and every score lies
\* in [0, 1], for any forest (fitted or not) and any input rows.
C3_ScoresInUnitInterval ==
    out.op = "score_samples" =>
        /\ Len(out.val) = Len(out.X)
        /\ \A i \in 1..Len(out.val) : InUnitInterval(out.val[i])

\* C3 holds of every forest that has at least one tree to average over.
C3_ScoresInUnitIntervalSomeTrees ==
    (out.op = "score_samples" /\ forest.n_trees >= 1) =>
        /\ Len(out.val) = Len(out.X)
        /\ \A i \in 1..Len(out.val) : InUnitInterval(out.val[i])

\* C4: score_samples and predict leave the trees and the threshold as the
\* last fit stored them, and predict flags a row exactly when its score is
\* strictly greater than that threshold.
C4_ImmutableUnderUse ==
    /\ [][out'.op \in {"score_samples", "predict"} => forest' = forest]_vars
    /\ [](out.op = "predict" =>
            /\ Len(out.val) = Len(out.X)
            /\ \A i \in 1..Len(out.X) :
                  (out.val[i] = 1) <=>
                      FloatGt(ScoreSamples(forest, out.X)[i], forest.threshold))

\* predict on a fitted forest flagged one row and did not flag another
C4_Witness ==
    /\ out.op = "predict"
    /\ forest.trees # <<>>
    /\ \E i, j \in 1..Len(out.val) : out.val[i] = 1 /\ out.val[j] = 0

\* C5: a new forest has no trees and no threshold; after a successful fit
\* (a first or a later one) it holds exactly n_trees trees, each built on a
\* subsample of that fit's rows, and the threshold is the (1 - contamination)
\* percentile of the scores of those rows.
C5_ForestLifecycle ==
    /\ fitDone = 0 => forest.trees = <<>> /\ forest.threshold = NoThreshold
    /\ fitDone > 0 =>
          /\ Len(forest.trees) = forest.n_trees
          /\ \A i \in 1..Len(forest.trees) :
                forest.trees[i].size = SampleSize(forest, fitX)
          /\ forest.threshold =
                Percentile(ScoreSamples(forest, fitX), 100 - forest.contamination)

\* a second fit, on rows of another length, has replaced the first one's trees
C5_Witness ==
    /\ fitDone = 2
    /\ out.op = "fit"
    /\ Len(forest.trees) = 2
    /\ forest.trees[1].size = 2
    /\ forest.trees[1].left # <<>>

(***************************************************************************)
(* Claims about K-means, checked under SpecKMeans.                         *)
(***************************************************************************)

\* the inertia of iteration t's labels against the centroids they were
\* assigned to, and against the centroids updated from them
InertiaAssigned(t) == Inertia(km.X, kmTrace[t].labels, kmTrace[t].centroids)
InertiaUpdated(t) == Inertia(km.X, kmTrace[t].labels, kmTrace[t].new_centroids)

\* some cluster has no row in iteration t
HasEmptyCluster(t) ==
    \E j \in 1..km.k : Members(km.X, kmTrace[t].labels, j) = {}

\* C10: the inertia of the (labels, centroids) of successive Lloyd
\* iterations never increases, for fixed k and initial centroids, whether
\* or not a cluster is empty: neither the update of an iteration nor the
\* assignment of the next one raises it.
C10_InertiaNonIncreasing ==
    /\ \A t \in 1..Len(kmTrace) : InertiaUpdated(t) <= InertiaAssigned(t)
    /\ \A t \in 1..(Len(kmTrace) - 1) :
          /\ InertiaAssigned(t + 1) <= InertiaUpdated(t)
          /\ InertiaAssigned(t + 1) <= InertiaAssigned(t)
          /\ InertiaUpdated(t + 1) <= InertiaUpdated(t)

\* three iterations with a cluster left empty in the second, the inertia
\* falling strictly from each to the next
C10_Witness ==
    /\ Len(kmTrace) >= 3
    /\ HasEmptyCluster(2)
    /\ InertiaAssigned(2) < InertiaAssigned(1)
    /\ InertiaAssigned(3) < InertiaAssigned(2)

(***************************************************************************)
(* Claims about the HMM, checked under SpecHMM.                            *)
(***************************************************************************)

\* |a - b| < 1e-6, computed without the model's rounding of the threshold
WithinConv(a, b) ==
    /\ Abs(a - b) < ONE
    /\ Abs(a - b) * ConvDen < ConvNum * ONE

\* the shape of the loop of fit_hmm at any moment
C6_LoopShape ==
    hmm.status # "called" =>
      LET lls == hmm.log_likelihoods
          n   == Len(lls)
      IN  /\ n = hmm.i
          /\ n <= hmm.n_iterations
          /\ \A j \in 2..n :
                WithinConv(lls[j], lls[j - 1]) =>
                    j = n /\ hmm.status \in {"break", "done"}
          /\ hmm.status \in {"break", "done"} /\ n < hmm.n_iterations =>
                n >= 2 /\ WithinConv(lls[n], lls[n - 1])
          /\ hmm.status = "done" =>
                /\ hmm.n_iterations >= 1 => n >= 1
                /\ Len(hmm.states) = Len(hmm.returns)
                /\ Len(hmm.params.means) = hmm.n_states

\* the steps fit_hmm has left at most: the passes of the loop not yet
\* run, and the return
C6_StepsLeft ==
    CASE hmm.status = "called" -> hmm.n_iterations + 2
      [] hmm.status = "loop"   -> hmm.n_iterations - hmm.i + 1
      [] hmm.status = "break"  -> 1
      [] OTHER                 -> 0

\* C6: fit_hmm always terminates and returns parameters, states and a
\* trace; it runs at most n_iterations iterations, stops after the first
\* iteration i >= 1 whose log-likelihood is within 1e-6 of the previous
\* one, and the trace has one entry per iteration run.  Termination: until
\* it has returned the call stands at one of its steps, and every step
\* lowers the number of steps left, which is never negative.
C6_FitTerminates ==
    /\ []C6_LoopShape
    /\ [](C6_StepsLeft >= 0)
    /\ [](hmm.status # "done" => AtInitialize \/ AtIteration \/ AtReturn)
    /\ [][C6_StepsLeft' < C6_StepsLeft]_vars

\* the fit returned after stopping early, on observations that differ
C6_Witness ==
    /\ hmm.status = "done"
    /\ hmm.i >= 2
    /\ hmm.i < hmm.n_iterations
    /\ \E t \in 1..Len(hmm.returns) : hmm.returns[t] # hmm.returns[1]

\* C7: the log-likelihood trace of fit_hmm is non-decreasing, for any
\* observations and any n_states.
C7_LogLikelihoodNonDecreasing ==
    \A j \in 1..(Len(hmm.log_likelihoods) - 1) :
        hmm.log_likelihoods[j + 1] >= hmm.log_likelihoods[j]

\* a probability vector: every entry in [0, 1] and the sum 1; every entry
\* is a quotient rounded down to the grid, so the sum of n entries falls
\* short of 1 by less than n steps of the grid
Stochastic(v) ==
    /\ \A i \in 1..Len(v) : 0 <= v[i] /\ v[i] <= ONE
    /\ ONE - Len(v) < SumSeq(v)
    /\ SumSeq(v) <= ONE

\* C8: after initialize_hmm and after every Baum-Welch iteration the
\* parameters are well-formed: means, variances, start_prob and both
\* dimensions of the transition matrix have n_states entries, every row of
\* the transition matrix and the start vector are probability vectors.
C8_ParamsWellFormed ==
    hmm.status \notin {"idle", "called"} =>
        LET p == hmm.params
            n == hmm.n_states
        IN  /\ Len(p.means) = n
            /\ Len(p.variances) = n
            /\ Len(p.start_prob) = n
            /\ Len(p.transition) = n
            /\ Stochastic(p.start_prob)
            /\ \A i \in 1..n : Len(p.transition[i]) = n /\ Stochastic(p.transition[i])

\* two iterations have run on three or more observations and left a
\* transition matrix whose rows differ
C8_Witness ==
    /\ hmm.status = "loop"
    /\ hmm.i >= 2
    /\ Len(hmm.returns) >= 3
    /\ hmm.params.transition[1] # hmm.params.transition[2]
    /\ hmm.params.start_prob[1] # hmm.params.start_prob[2]

\* the joint log-score of the state sequence q
JointScore(obs, params, q) ==
    LET em == LogEmission(obs, params)
        lt == LogTrans(params)
    IN  LogStart(params)[q[1]]
        + SumSeq(Vec([t \in 1..(Len(obs) - 1) |-> lt[q[t]][q[t + 1]]]))
        + SumSeq(Vec([t \in 1..Len(obs) |-> em[t][q[t]]]))

\* C9: the states viterbi_decode returns are one per observation, each a
\* state of the model; no state sequence of that length has a higher joint
\* log-score; the last state is an argmax of the final scores and every
\* earlier state is the back-pointer of its successor.
C9_ViterbiOptimal ==
    hmm.status = "done" =>
        LET obs == hmm.returns
            T   == Len(obs)
            n   == hmm.n_states
            st  == hmm.states
            v   == ViterbiTables(obs, hmm.params)
        IN  /\ Len(st) = T
            /\ \A t \in 1..T : st[t] \in 1..n
            /\ \A q \in [1..T -> 1..n] :
                  JointScore(obs, hmm.params, q) <= JointScore(obs, hmm.params, st)
            /\ v.log_delta[T][st[T]] = SeqMax(v.log_delta[T])
            /\ \A t \in 1..(T - 1) : st[t] = v.psi[t + 1][st[t + 1]]

\* the decoded states of a fitted model change along the observations
C9_Witness ==
    /\ hmm.status = "done"
    /\ hmm.i >= 2
    /\ Len(hmm.states) >= 3
    /\ hmm.states[1] # 1
    /\ hmm.states[2] # hmm.states[1]

(***************************************************************************)
(* Claims about the generator, checked under SpecHandlers.                 *)
(***************************************************************************)

C11_StepsLeft ==
    CASE km.status = "called" -> km.max_iters + 2
      [] km.status = "loop"   -> km.max_iters - km.it + 1
      [] km.status = "break"  -> 1
      [] OTHER                -> 0

\* the loop has made km.it <= max_iters passes; a pass whose squared
\* centroid movement is below tol is the last one, and a loop left before
\* max_iters passes was left by such a pass
C11_LoopShape ==
    km.status \in {"loop", "break", "done"} =>
        /\ km.it = Len(kmTrace)
        /\ km.it <= km.max_iters
        /\ \A i \in 1..Len(kmTrace) :
              ConvergedTol(kmTrace[i].new_centroids, kmTrace[i].centroids, km.tol) =>
                  i = Len(kmTrace) /\ km.status # "loop"
        /\ km.status = "break" \/ (km.status = "done" /\ km.it < km.max_iters) =>
              ConvergedTol(kmTrace[km.it].new_centroids, kmTrace[km.it].centroids, km.tol)

\* a call that has not returned or raised can take its next step
C11_CanStep ==
    \/ km.status = "called" /\ KppOutcomes(km.X, km.k) # {}
    \/ km.status = "loop"
    \/ km.status = "break"

\* C11: kmeans terminates after at most max_iters passes of the loop and
\* leaves the loop earlier exactly at the first pass whose squared centroid
\* movement is below tol; the inertia plays no part in stopping.
C11_KMeansTerminates ==
    /\ []C11_LoopShape
    /\ [](C11_StepsLeft >= 0)
    /\ [](km.status \notin {"done", "raised"} => C11_CanStep)
    /\ [][C11_StepsLeft' < C11_StepsLeft]_vars

\* a call that left the loop early, after a pass that moved the centroids
C11_Witness ==
    /\ km.status = "done"
    /\ km.it < km.max_iters
    /\ Len(kmTrace) >= 2
    /\ ~ConvergedTol(kmTrace[1].new_centroids, kmTrace[1].centroids, km.tol)

\* the rows of X hold fewer distinct rows than k (all equal, for one)
C15_Degenerate(X, k) == Len(X) > 0 /\ Cardinality({X[i] : i \in 1..Len(X)}) < k

\* C15: kmeans on a zero-variance dataset (all rows identical, or fewer
\* distinct rows than k) returns labels, centroids and inertia: it does
\* not raise.
C15_DegenerateInputReturns ==
    C15_Degenerate(km.X, km.k) /\ km.max_iters > 0 => km.status # "raised"

(***************************************************************************)
(* Claims about requests served at once, checked under SpecConc.           *)
(***************************************************************************)

\* C2: concurrent engine runs do not share generator state: however two
\* runs are interleaved, each run that has finished holds the result it
\* produces when run alone from the same seed.
C2_InterleavedRunsEqualAlone ==
    \A t \in DOMAIN conc :
        conc[t].pc = "done" =>
            /\ conc[t].raised = RunAlone(conc[t].job).raised
            /\ conc[t].acc = RunAlone(conc[t].job).acc

(***************************************************************************)
(* Claims about silhouette_score, checked under SpecSilhouette.            *)
(***************************************************************************)

\* a of the definition: the mean distance to the other rows of the own
\* cluster, rows with the same coordinates included; 0 in a cluster of one
C12_A(X, labels, i) ==
    LET same == SilCluster(labels, labels[i])
    IN  IF Cardinality(same) > 1 THEN SilMeanDist(X, X[i], same \ {i}) ELSE 0

\* the score of the definition: (b - a) / max(a, b), 0 if both are zero
C12_Point(a, b) == IF Max2(a, b) > 0 THEN ((b - a) * ONE) \div Max2(a, b) ELSE 0

C12_Score(X, labels) ==
    IF Cardinality({labels[j] : j \in 1..Len(labels)}) <= 1 THEN 0
    ELSE SumSeq([i \in 1..Len(X) |->
                    C12_Point(C12_A(X, labels, i), SilB(X, labels, i))])
         \div Len(X)

\* two rows of one cluster with the same coordinates
C12_HasTwins(X, labels) ==
    \E i, j \in 1..Len(X) : i # j /\ labels[i] = labels[j] /\ X[i] = X[j]

\* C12: silhouette_score returns the mean over the rows of
\* (b - a) / max(a, b), a the mean distance to the other rows of the own
\* cluster and b the least mean distance to another cluster, for every
\* labelled dataset, rows with identical coordinates included.
C12_SilhouetteAsDefined ==
    fn.op = "returned" /\ fn.f = "silhouette_score" =>
        fn.val = C12_Score(fn.X, fn.labels)

\* the same on the datasets where no cluster holds two rows with the same
\* coordinates
C12_SilhouetteAsDefinedNoTwins ==
    fn.op = "returned" /\ fn.f = "silhouette_score"
        /\ ~C12_HasTwins(fn.X, fn.labels) =>
        fn.val = C12_Score(fn.X, fn.labels)

(***************************************************************************)
(* Claims about the Q-learning hedger, checked under SpecRL.               *)
(***************************************************************************)

\* C13: evaluation reads the Q-table and never writes it: a state whose key
\* is absent gets action 1 (1.0 x BS delta) and is not inserted, and the
\* table during and after evaluate_strategies equals the table
\* train_q_learning returned.
C13_EvaluationReadOnly ==
    rl.status \in {"path", "eval", "done"} =>
        /\ rl.q_table = rl.q_trained
        /\ rl.last # NoStep /\ ~rl.last.present =>
              rl.last.action = 1 /\ rl.last.state \notin DOMAIN rl.q_table

\* evaluation over, having met a state the training never bound and, on
\* another step, one it did
C13_Witness ==
    /\ rl.status = "done"
    /\ rl.last # NoStep
    /\ ~rl.last.present
    /\ rl.q_table # <<>>
    /\ \E t \in 1..rl.cfg.n_steps :
          StateAt(rl.cfg, rl.sample.path, t - 1).state \in DOMAIN rl.q_table

\* every key is a triple of buckets in 0..4 and every entry has one value
\* per action
C14_TableShape ==
    /\ \A k \in DOMAIN rl.q_table :
          /\ Len(k) = 3
          /\ \A d \in 1..3 : k[d] \in 0..4
          /\ Len(rl.q_table[k]) = 3
    /\ Cardinality(DOMAIN rl.q_table) <= 125

\* C14: at every point of training each key of the Q-table is a
\* (moneyness, time, delta) triple of buckets in 0..4, so there are at most
\* 125 entries; each entry holds 3 action values; entries are added and
\* never removed.
C14_QTableShape ==
    /\ []C14_TableShape
    /\ [][\A k \in DOMAIN rl.q_table : k \in DOMAIN rl.q_table']_vars

\* in training, a table of three keys or more, one in the top time bucket
\* (time_frac = 1, where int(time_frac * 5) is 5)
C14_Witness ==
    /\ rl.status = "step"
    /\ rl.episode >= 1
    /\ Cardinality(DOMAIN rl.q_table) >= 3
    /\ \E k \in DOMAIN rl.q_table : k[2] = 4

(***************************************************************************)
(* Further claims about the Isolation Forest, checked under SpecForest.    *)
(***************************************************************************)

\* C16: the core fails fast on configuration out of range: a forest whose
\* contamination lies outside [0.01, 0.2] (1 to 20 percent) never
\* completes a fit.
C16_OutOfRangeFailsFast ==
    forest.contamination < 1 \/ forest.contamination > 20 =>
        fitDone = 0 /\ forest.threshold = NoThreshold

\* all rows of X are the same row
C17_AllSame(X) == \A i, j \in 1..Len(X) : X[i] = X[j]

\* C17: fitted on rows that are all identical, the forest holds only
\* single-leaf trees (each root has no children and no split value), and
\* score_samples gives every row the same score.
C17_IdenticalRowsDegenerate ==
    fitDone >= 1 /\ C17_AllSame(fitX) =>
        /\ \A i \in 1..Len(forest.trees) :
              /\ forest.trees[i].left = <<>>
              /\ forest.trees[i].right = <<>>
              /\ forest.trees[i].split_value = NoValue
              /\ forest.trees[i].size = Min2(forest.max_samples, Len(fitX))
        /\ out.op = "score_samples" =>
              \A i, j \in 1..Len(out.val) : out.val[i] = out.val[j]

\* two trees fitted on three identical rows, three rows of which two
\* differ scored, to a score that is a number
C17_Witness ==
    /\ fitDone >= 1
    /\ C17_AllSame(fitX)
    /\ Len(fitX) = MaxRows
    /\ Len(forest.trees) = MaxTrees
    /\ forest.max_samples >= 2
    /\ out.op = "score_samples"
    /\ Len(out.X) >= 2
    /\ out.X[1] # out.X[2]
    /\ out.val[1] # NaN

(***************************************************************************)
(* Claims about standardize_features, checked under SpecStandardize.       *)
(***************************************************************************)

\* the standard deviation of column c is zero: its values are all equal
C18_ZeroDeviation(F, c) == \A i, j \in 1..Len(F) : F[i][c] = F[j][c]

\* C18: standardization never divides by zero: a column whose standard
\* deviation is zero is divided by 1, so all its standardized values are
\* 0, and every standardized value is finite, for any feature matrix.
C18_StandardizeZeroDeviation ==
    fn.op = "returned" /\ fn.f = "standardize_features" =>
        /\ Len(fn.val) = Len(fn.X)
        /\ \A i \in 1..Len(fn.X) : \A c \in 1..ZDim :
              /\ fn.val[i][c] # NotFinite
              /\ C18_ZeroDeviation(fn.X, c) => fn.val[i][c] = 0

\* what holds of every feature matrix: no division by zero, all values
\* finite, and a column whose computed np.std is 0 is divided by 1
C18_NoDivisionByZero ==
    fn.op = "returned" /\ fn.f = "standardize_features" =>
        \A i \in 1..Len(fn.X) : \A c \in 1..ZDim :
            /\ fn.val[i][c] # NotFinite
            /\ ZStd(fn.X, c) = 0 =>
                  fn.val[i][c] = (ZCentered(fn.X, c)[i][1] * ONE) \div ZOne
            /\ ZStd(fn.X, c) # 0 =>
                  fn.val[i][c] = (ZCentered(fn.X, c)[i][1] * ONE)
                                 \div ZStd(fn.X, c)

(***************************************************************************)
(* Claims about one isolation tree, checked under SpecTree.                *)
(***************************************************************************)

\* the node t, built at `depth` on the rows X, and all below it are as
\* IsolationTree.fit is said to build them
RECURSIVE C19_WellFormed(_, _, _, _)
C19_WellFormed(t, X, depth, maxDepth) ==
    LET f        == t.split_feature
        v        == t.split_value
        isLeaf   == t.left = <<>> /\ t.right = <<>>
        Below(x) == x[f] < v
        NotBelow(x) == x[f] >= v
        XL       == SelectSeq(X, Below)
        XR       == SelectSeq(X, NotBelow)
    IN  /\ t.size = Len(X)
        /\ depth <= maxDepth
        /\ (t.left = <<>>) = (t.right = <<>>)
        /\ Len(X) <= 1 \/ depth >= maxDepth => isLeaf /\ f = NoFeature
        /\ f # NoFeature /\ (\A i, j \in 1..Len(X) : X[i][f] = X[j][f]) =>
              isLeaf /\ v = NoValue
        /\ ~isLeaf =>
              /\ Len(XL) > 0
              /\ Len(XR) > 0
              /\ t.left[1].size + t.right[1].size = t.size
              /\ C19_WellFormed(t.left[1], XL, depth + 1, maxDepth)
              /\ C19_WellFormed(t.right[1], XR, depth + 1, maxDepth)

\* C19: in a tree built by IsolationTree.fit a node is a leaf when it has
\* at most one row, sits at max_depth, or its chosen feature is constant;
\* any other node is a leaf or has two non-empty children holding its rows
\* below the split (left) and not below it (right), their sizes summing
\* to its size; no node lies deeper than max_depth or has one child.
C19_TreeStructure ==
    fn.op = "returned" /\ fn.f = "IsolationTree.fit" =>
        C19_WellFormed(fn.val, fn.X, 0, fn.max_depth)

\* a root split in two, one child a leaf because its feature is constant
C19_Witness ==
    /\ fn.op = "returned"
    /\ fn.f = "IsolationTree.fit"
    /\ Len(fn.X) = MaxRows
    /\ fn.max_depth = CeilLog2(MaxRows)
    /\ fn.val.left # <<>>
    /\ \E c \in {fn.val.left[1], fn.val.right[1]} :
          c.size >= 2 /\ c.split_feature # NoFeature /\ c.split_value = NoValue

(***************************************************************************)
(* Further claims about the HMM, checked under SpecHMM.                    *)
(***************************************************************************)

\* C20: no state of the HMM has zero variance: in the parameters produced
\* by initialize_hmm and by every Baum-Welch iteration each variance is at
\* least 1e-10, for any observation sequence, a constant one included.
C20_VarianceFloor ==
    hmm.status \in {"loop", "break", "done"} =>
        \A s \in 1..hmm.n_states : hmm.params.variances[s] >= Eps

\* the same of the parameters a Baum-Welch iteration produced
C20_VarianceFloorAfterIteration ==
    hmm.status \in {"loop", "break", "done"} /\ hmm.i >= 1 =>
        \A s \in 1..hmm.n_states : hmm.params.variances[s] >= Eps

(***************************************************************************)
(* One call kmeans_plusplus_init(X, k), one step per draw, from the        *)
(* generator states Seed(0..PMaxSeed).                                     *)
(***************************************************************************)
PMaxSeed == 3

InitKpp ==
    /\ rng \in {Seed(n) : n \in 0..PMaxSeed}
    /\ ForestIdle
    /\ KIdle
    /\ HIdle
    /\ HandlersIdle
    /\ conc = <<>>
    /\ RlIdle
    /\ \E X \in KDatasets, k \in 1..KMaxK :
          fn = [op |-> "kpp", status |-> "drawing", X |-> X, k |-> k,
                chosen |-> <<>>, centroids |-> <<>>]

\* first_idx = np.random.randint(n_samples); centroids.append(X[first_idx])
KppFirst ==
    /\ fn.op = "kpp" /\ fn.status = "drawing" /\ fn.chosen = <<>>
    /\ \E d \in {KppStep(fn.X, fn.chosen, rng)} :
          /\ fn' = IF d.raised THEN [fn EXCEPT !.status = "raised"]
                    ELSE [fn EXCEPT !.chosen = d.chosen]
          /\ rng' = d.rng
    /\ UNCHANGED <<forestVars, kmVars, hmmVars, handlerVars, concVars, rlVars>>

\* one pass of `for _ in range(1, k)`
KppNext ==
    /\ fn.op = "kpp" /\ fn.status = "drawing"
    /\ 0 < Len(fn.chosen) /\ Len(fn.chosen) < fn.k
    /\ \E d \in {KppStep(fn.X, fn.chosen, rng)} :
          /\ fn' = IF d.raised THEN [fn EXCEPT !.status = "raised"]
                    ELSE [fn EXCEPT !.chosen = d.chosen]
          /\ rng' = d.rng
    /\ UNCHANGED <<forestVars, kmVars, hmmVars, handlerVars, concVars, rlVars>>

\* return np.array(centroids)
KppReturn ==
    /\ fn.op = "kpp" /\ fn.status = "drawing"
    /\ 0 < Len(fn.chosen) /\ Len(fn.chosen) >= fn.k
    /\ fn' = [fn EXCEPT !.status = "returned",
                        !.centroids = CentroidsOf(fn.X, fn.chosen)]
    /\ UNCHANGED <<rng, forestVars, kmVars, hmmVars, handlerVars, concVars, rlVars>>

NextKpp == KppFirst \/ KppNext \/ KppReturn

SpecKpp == InitKpp /\ [][NextKpp]_vars

(***************************************************************************)
(* Claims about what a pass of the kmeans loop does to the centroids and   *)
(* about the labels and centroids kmeans returns, checked under            *)
(* SpecKMeans.                                                             *)
(***************************************************************************)

\* centroid j after a pass is the mean of the rows the pass assigned to
\* it, or, with no row assigned, the centroid it was before the pass
C21_Recomputed(j) ==
    km'.centroids[j] =
        IF Members(km.X, km'.labels, j) # {}
        THEN MeanOf(km.X, Members(km.X, km'.labels, j))
        ELSE km.centroids[j]

\* C21: in every Lloyd iteration of kmeans a centroid with at least one
\* assigned point is replaced by the mean of its assigned points and a
\* centroid with no assigned point keeps its previous position; the number
\* of centroids stays k throughout.
C21_IterationRecomputesCentroids ==
    [][km'.it = km.it + 1 =>
          /\ Len(km'.centroids) = km.k
          /\ \A j \in 1..km.k : C21_Recomputed(j)]_vars

\* the same of the passes that do not leave the loop; the pass that leaves
\* it keeps every centroid where it was
C21_RecomputedUnlessBreak ==
    [][km'.it = km.it + 1 =>
          /\ Len(km'.centroids) = km.k
          /\ km'.status # "break" => \A j \in 1..km.k : C21_Recomputed(j)
          /\ km'.status = "break" => km'.centroids = km.centroids]_vars

\* every label is the index of a centroid nearest to its row
C25_SelfConsistent(X, labels, cents) ==
    /\ Len(labels) = Len(X)
    /\ \A i \in 1..Len(X) :
          /\ labels[i] \in 1..Len(cents)
          /\ \A j \in 1..Len(cents) :
                Dist2C(X[i], cents[labels[i]]) <= Dist2C(X[i], cents[j])

\* C25: the result of kmeans is self-consistent however the loop ends
\* (tolerance reached or max_iters exhausted): every returned label is the
\* index of a returned centroid that has minimal squared distance to that
\* point among the returned centroids.
C25_ResultSelfConsistent ==
    km.status = "done" => C25_SelfConsistent(km.X, km.labels, km.centroids)

\* the same of the calls whose last pass left the loop on the tolerance
C25_SelfConsistentAfterBreak ==
    km.status = "done"
      /\ ConvergedTol(kmTrace[km.it].new_centroids, kmTrace[km.it].centroids, km.tol)
        => C25_SelfConsistent(km.X, km.labels, km.centroids)

(***************************************************************************)
(* Claims about kmeans_plusplus_init, checked under SpecKpp.               *)
(***************************************************************************)

\* what np.random.choice(n, p = w / w.sum()) returns from each state of the
\* generator
C22_Draws(w) == Vec([s \in 1..RngMod |-> WeightedChoice(s - 1, w).val])

\* row j's share of the generator states is its share of the weights, to
\* within one generator state
C22_Proportional(w) ==
    \A total \in {SumSeq(w)}, draws \in {C22_Draws(w)} :
        \A j \in 1..Len(w) :
            \A n \in {Cardinality({s \in 1..RngMod : draws[s] = j})} :
                /\ w[j] = 0 => n = 0
                /\ Abs(n * total - w[j] * RngMod) <= total

\* the rows of X hold at least k distinct rows
C22_EnoughRows(X, k) == Cardinality({X[i] : i \in 1..Len(X)}) >= k

\* C22: kmeans_plusplus_init returns exactly k centroids, each a row of X;
\* every centroid after the first is drawn with probability proportional
\* to the row's squared distance to its nearest already chosen centroid,
\* so a row at distance 0 from a chosen centroid is never drawn and, when
\* X has at least k distinct rows, the k centroids are pairwise distinct.
C22_KppInit ==
    fn.op = "kpp" =>
        /\ fn.status = "returned" =>
              /\ Len(fn.centroids) = fn.k
              /\ \A i \in 1..fn.k :
                    \E r \in 1..Len(fn.X) : fn.centroids[i] = Scaled(fn.X[r])
        /\ \A i \in 2..Len(fn.chosen) :
              MinDist(fn.X, SubSeq(fn.chosen, 1, i - 1), fn.X[fn.chosen[i]]) > 0
        /\ fn.status = "drawing" /\ fn.chosen # <<>>
               /\ SumSeq(KppDistances(fn.X, fn.chosen)) > 0 =>
              C22_Proportional(Vec(KppDistances(fn.X, fn.chosen)))
        /\ C22_EnoughRows(fn.X, fn.k) =>
              /\ fn.status # "raised"
              /\ fn.status = "returned" =>
                    \A i, j \in 1..fn.k : i # j => fn.centroids[i] # fn.centroids[j]

\* three pairwise distinct centroids returned from a dataset that holds a
\* row twice
C22_Witness ==
    /\ fn.op = "kpp" /\ fn.status = "returned" /\ fn.k = 3
    /\ \E i, j \in 1..Len(fn.X) : i # j /\ fn.X[i] = fn.X[j]
    /\ \A i, j \in 1..fn.k : i # j => fn.centroids[i] # fn.centroids[j]

(***************************************************************************)
(* Claims about a training step and about epsilon, checked under SpecRL.   *)
(***************************************************************************)

\* the action values of key k before the step: [0, 0, 0] for a key the
\* step inserts
C23_Before(k) == IF k \in DOMAIN rl.q_table THEN rl.q_table[k] ELSE <<0, 0, 0>>

\* the state after the one visited at this step
C23_NextState == StateAt(rl.cfg, rl.prices, rl.t + 1).state

\* the future term: 0 at the last step of an episode
C23_Future ==
    IF rl.t = rl.cfg.n_steps - 1 THEN 0 ELSE SeqMax(C23_Before(C23_NextState))

\* the value the step gives Q[s][a]
C23_Target(s, a) ==
    C23_Before(s)[a + 1]
    + (LearningRate
       * (rl'.last.reward + (QGamma * C23_Future) \div ONE - C23_Before(s)[a + 1]))
      \div ONE

\* what a training step does to the table
C23_StepEffect ==
    LET s == rl'.last.state
        a == rl'.last.action
    IN  /\ s = StateAt(rl.cfg, rl.prices, rl.t).state
        /\ a \in 0..2
        /\ DOMAIN rl'.q_table =
              DOMAIN rl.q_table \cup {s}
                \cup (IF rl.t = rl.cfg.n_steps - 1 THEN {} ELSE {C23_NextState})
        /\ \A k \in DOMAIN rl'.q_table : \A b \in 0..2 :
              rl'.q_table[k][b + 1] =
                  IF k = s /\ b = a THEN C23_Target(s, a) ELSE C23_Before(k)[b + 1]

\* C23: each training step of train_q_learning changes only the action
\* value Q[s][a] of the state visited and action chosen at that step, by
\* lr x (reward + gamma x max Q[s'] - Q[s][a]) with the future term 0 at
\* the last step of an episode; every other action value is unchanged, and
\* a state s or s' not yet in the table is first inserted as [0, 0, 0].
C23_TrainStepUpdatesOneValue ==
    [][rl.status = "step" /\ rl'.status = "step" /\ rl'.t = rl.t + 1
          => C23_StepEffect]_vars

\* in a later episode of training, a step has just updated an action value
\* of a key the table already held, in a table with another key
C23_Witness ==
    /\ rl.status = "step"
    /\ rl.last # NoStep
    /\ rl.last.present
    /\ rl.episode >= 1
    /\ Cardinality(DOMAIN rl.q_table) >= 2
    /\ rl.q_table[rl.last.state][rl.last.action + 1] # 0

\* epsilon_decay = (epsilon_start - epsilon_end) / n_episodes
C24_Decay == (EpsilonStart - EpsilonEnd) \div rl.cfg.n_episodes

\* epsilon in the episode numbered rl.episode (from 0), and after the last
C24_Schedule ==
    rl.status \in {"episode", "step"} =>
        /\ rl.epsilon = EpsilonStart - rl.episode * C24_Decay
        /\ rl.epsilon >= EpsilonEnd
        /\ rl.episode = 0 => rl.epsilon = EpsilonStart
        /\ rl.episode = rl.cfg.n_episodes =>
              rl.epsilon - EpsilonEnd = (EpsilonStart - EpsilonEnd) % rl.cfg.n_episodes

\* C24: epsilon is annealed linearly over training: the first episode uses
\* epsilon_start, after each episode epsilon decreases by
\* (epsilon_start - epsilon_end) / n_episodes, it is non-increasing and
\* never below epsilon_end, it equals epsilon_end after the last episode
\* (to the rounding of the decrement), and it is constant within an
\* episode.
C24_EpsilonAnnealed ==
    /\ []C24_Schedule
    /\ [][/\ rl'.epsilon <= rl.epsilon
          /\ rl'.episode = rl.episode => rl'.epsilon = rl.epsilon
          /\ rl'.episode # rl.episode =>
                rl'.episode = rl.episode + 1 /\ rl'.epsilon = rl.epsilon - C24_Decay]_vars

\* after the last of two episodes, the second of which used an epsilon
\* strictly between epsilon_start and epsilon_end
C24_Witness ==
    /\ rl.status = "episode"
    /\ rl.cfg.n_episodes = 2
    /\ rl.episode = 2
    /\ Len(rl.episode_rewards) = 2
    /\ rl.epsilon = EpsilonEnd
    /\ rl.epsilon + C24_Decay < EpsilonStart

(***************************************************************************)
(* A claim about the log-likelihood trace of fit_hmm, checked under        *)
(* SpecHMM.                                                                *)
(***************************************************************************)

\* C26: the last entry of the log-likelihood trace returned by fit_hmm is
\* the log-likelihood of the observations under the parameters that
\* fit_hmm returns and that Viterbi decoding uses.
C26_FinalLogLikelihoodOfReturned ==
    hmm.status = "done" /\ hmm.log_likelihoods # <<>> =>
        hmm.log_likelihoods[Len(hmm.log_likelihoods)]
            = ForwardAlgorithm(hmm.returns, hmm.params).log_likelihood

\* the entry a pass appends is the log-likelihood under the parameters the
\* pass started from
C26_EntryOfPreviousParameters ==
    [][hmm'.i = hmm.i + 1 =>
          hmm'.log_likelihoods[Len(hmm'.log_likelihoods)]
              = ForwardAlgorithm(hmm.returns, hmm.params).log_likelihood]_vars

(***************************************************************************)
(* Claims about the action taken for a state without preference and about *)
(* evaluation against the Black-Scholes baseline, checked under SpecRL.    *)
(***************************************************************************)

\* the state the last step met carries no preference: its key is absent,
\* or present with three equal action values
C27_NoPreference ==
    \/ ~rl.last.present
    \/ /\ rl.last.present
       /\ rl.q_table[rl.last.state][1] = rl.q_table[rl.last.state][2]
       /\ rl.q_table[rl.last.state][2] = rl.q_table[rl.last.state][3]

\* C27: at evaluation a state whose action values carry no preference
\* falls back to the exact delta hedge: for a state absent from the
\* Q-table or present with all three action values equal,
\* evaluate_strategies and the greedy branch of get_action_from_q select
\* action 1 (1.0 x BS delta).
C27_NoPreferenceIsDeltaHedge ==
    rl.status \in {"eval", "path", "done"} /\ rl.last # NoStep /\ C27_NoPreference =>
        /\ rl.last.action = 1
        /\ GetActionFromQ(rl.q_table, rl.last.state, 0, rng).val = 1

\* an absent state gets action 1, a present state with three equal values
\* gets action 0 (0.8 x BS delta)
C27_EqualValuesTakeFirst ==
    rl.status \in {"eval", "path", "done"} /\ rl.last # NoStep /\ C27_NoPreference =>
        /\ rl.last.action = IF rl.last.present THEN 0 ELSE 1
        /\ GetActionFromQ(rl.q_table, rl.last.state, 0, rng).val = rl.last.action

\* the BS delta at step t (from 0) of the path in hand
C28_BsHedge(t) == StateAt(rl.cfg, rl.prices, t).bs_delta

\* the table holds none of the states met on the path in hand
C28_NoStateMet ==
    \A t \in 0..(rl.cfg.n_steps - 1) :
        StateAt(rl.cfg, rl.prices, t).state \notin DOMAIN rl.q_table

\* C28: with a Q-table that contains none of the states met (in
\* particular the empty table), evaluate_strategies makes the RL strategy
\* identical to the Black-Scholes baseline: on every path both strategies
\* are run on the same simulated prices, hold the same hedge position at
\* every step and report the same hedging error, for any transaction cost.
C28_UnboundTableIsBaseline ==
    /\ rl.status = "eval" /\ C28_NoStateMet =>
          \A t \in 1..Len(rl.hedges) : rl.hedges[t] = C28_BsHedge(t - 1)
    /\ rl.status \in {"path", "done"} /\ rl.path_idx >= 1 /\ C28_NoStateMet =>
          /\ Len(rl.hedges) = rl.cfg.n_steps
          /\ \A t \in 1..Len(rl.hedges) : rl.hedges[t] = C28_BsHedge(t - 1)
          /\ rl.rl_errors[rl.path_idx] = rl.bs_errors[rl.path_idx]
          /\ rl.bs_errors[rl.path_idx]
                = HedgingError(rl.prices, rl.hedges, rl.cfg.K, rl.cfg.transaction_cost)
    /\ rl.status \in {"path", "done"} /\ rl.path_idx >= 1 /\ rl.q_table = <<>> =>
          /\ rl.rl_errors = rl.bs_errors
          /\ rl.sample.rl_hedges = rl.sample.bs_hedges

\* an evaluation over with a table that is not empty and holds none of
\* the states of the last path, at a transaction cost above 0, the hedge
\* having been rebalanced
C28_Witness ==
    /\ rl.status = "done"
    /\ rl.q_table # <<>>
    /\ C28_NoStateMet
    /\ rl.cfg.transaction_cost > 0
    /\ rl.hedges[1] # rl.hedges[2]
    /\ rl.rl_errors[rl.path_idx] # 0

(***************************************************************************)
(* A claim about the cluster count the stock-clustering handler passes to  *)
(* kmeans, checked under SpecValidate.                                     *)
(***************************************************************************)

\* C29: the stock-clustering handler invokes kmeans only with a cluster
\* count k satisfying 2 <= k <= 6 and k <= number of stocks that have
\* data, for every n_clusters query value and every tickers list (lists of
\* one, two or three tickers included); otherwise it answers with an error
\* and does not run kmeans.
C29_KMeansOnlyWithValidK ==
    fn.op = "clustering" /\ fn.status = "kmeans" =>
        /\ 2 <= fn.k
        /\ fn.k <= 6
        /\ fn.k <= fn.n_data

\* the same of the requests that list four tickers or more; with fewer,
\* kmeans is invoked with k = 0 (one ticker) or k = 1 (two or three)
C29_ValidKFromFourTickers ==
    fn.op = "clustering" /\ fn.status = "kmeans" =>
        /\ fn.k <= 6
        /\ fn.k <= fn.n_data
        /\ 2 <= fn.k <=> fn.n_tickers >= 4
        /\ fn.n_tickers < 4 => fn.k = fn.n_tickers \div 2

(***************************************************************************)
(* A claim about generate_signals, checked under SpecSignals.              *)
(***************************************************************************)

\* the signals emitted so far: one per z-score read, each -1, 0 or +1, the
\* last one the position, and no +1 next to a -1
C30_Signals ==
    fn.op = "signals" =>
        /\ fn.status = "returned" => Len(fn.signals) = Len(fn.zscore)
        /\ fn.impl = "list" => Len(fn.signals) = fn.i
        /\ \A j \in 1..Len(fn.signals) : fn.signals[j] \in {0 - 1, 0, 1}
        /\ fn.position \in {0 - 1, 0, 1}
        /\ \A j \in 1..(Len(fn.signals) - 1) :
              fn.signals[j] * fn.signals[j + 1] # 0 - 1

\* what reading the z-score z does to the position
C30_Transition(z) ==
    /\ fn'.signals[fn.i + 1] = fn'.position
    /\ fn.position = 0 /\ fn'.position = 1 => ZLt(z, 0 - fn.th.entry)
    /\ fn.position = 0 /\ fn'.position = 0 - 1 => ZLt(fn.th.entry, z)
    /\ fn.position = 1 /\ ZLt(0 - fn.th.exit, z) => fn'.position = 0
    /\ fn.position = 0 - 1 /\ ZLt(z, fn.th.exit) => fn'.position = 0
    /\ fn.position # 0 => fn'.position \in {0, fn.position}

\* C30: generate_signals is a three-state position machine (flat 0, long
\* +1, short -1): it emits one signal per z-score, each in {-1, 0, +1};
\* from flat it goes long only when z < -entry_threshold and short only
\* when z > entry_threshold; a long exits to flat when
\* z > -exit_threshold and a short when z < exit_threshold; and
\* consecutive signals never go directly from +1 to -1 or from -1 to +1
\* without a 0 in between, for every z-score sequence.
C30_PositionMachine ==
    /\ []C30_Signals
    /\ [][fn.op = "signals" /\ fn'.i = fn.i + 1
            => C30_Transition(fn.zscore[fn.i + 1])]_vars

\* a sequence read to its end with a long entered and left and a short
\* entered after it
C30_Witness ==
    /\ fn.op = "signals" /\ fn.status = "returned"
    /\ \E j \in 1..(Len(fn.signals) - 2) :
          /\ fn.signals[j] = 1
          /\ fn.signals[j + 1] = 0
          /\ fn.signals[j + 2] = 0 - 1

====
